---- MODULE Spec2Model ----
(***************************************************************************)
(* A model of the selector, style-link trie, cascade, registry and value   *)
(* definition parts of the CSS library (src/lib/css/src/css_value.c).      *)
(*                                                                         *)
(* C strings are sequences of byte values; the NULL pointer of a string or *)
(* of a string list is the empty sequence (the code never stores an empty  *)
(* string: SelectorNode_Save rejects len < 1).                             *)
(***************************************************************************)
EXTENDS Integers, Sequences, FiniteSets, TLC

VARIABLES
    batch_num,   \* static int batch_num of css_selector_create
    selectors,   \* the css_selector_t objects the caller holds, in creation order
    groups,      \* css.groups: one map fullname -> link group per depth
    cache,       \* css.cache: selector hash -> computed declaration
    rule_seq,    \* number of css_style_rule_t allocated so far (their identity)
    added,       \* history: one entry per css_add_style_sheet call
    ret,         \* what the last call did and returned
    text,        \* parser specification: the input text
    parsed,      \* parser specification: the result of css_selector_create(text)
    texts,       \* the selector texts the caller draws from
    sn_in,       \* name-list specification: the input node
    sn_names,    \* name-list specification: the list css_selector_node_get_name_list built
    keywords,    \* css.keywords: keyword name -> css_keyword_t
    keyword_names, \* css.keyword_names: keyword key -> css_keyword_t
    types,       \* css_value.types: type name -> css_value_type_record_t
    properties,  \* css.properties: the array of css.properties_length slots
    type_alias,  \* css_value.type_alias: alias -> type name
    decl_dest,   \* declaration specification: the declaration a caller merges into
    decl_src     \* declaration specification: the declaration a caller merges from

\* the keyword, value type and property registries
registry == <<keywords, keyword_names, types, properties, type_alias>>

\* the two declarations of a caller
decls == <<decl_dest, decl_src>>

vars == <<batch_num, selectors, groups, cache, rule_seq, added, ret, texts,
          text, parsed, sn_in, sn_names, registry, decls>>

(***************************************************************************)
(* Characters                                                              *)
(***************************************************************************)
CH_SPACE == 32
CH_TAB == 9
CH_LF == 10
CH_CR == 13
CH_BANG == CH_SPACE + 1
CH_HASH == 35
CH_STAR == 42
CH_MINUS == 45
CH_DOT == 46
CH_COLON == 58
CH_UNDERSCORE == 95
CH_0 == 48
CH_9 == 57
CH_UA == 65
CH_UZ == 90
CH_a == 97
CH_b == CH_a + 1
CH_c == CH_a + 2
CH_h == CH_a + 7
CH_m == CH_a + 12
CH_t == CH_a + 19
CH_v == CH_a + 21
CH_z == 122

STAR == <<CH_STAR>>

(***************************************************************************)
(* Program constants                                                       *)
(***************************************************************************)
CSS_SELECTOR_MAX_DEPTH == 32
TYPE_RANK == 1
CLASS_RANK == 10
PCLASS_RANK == 10
ID_RANK == 100

LEVEL_NONE == 0
LEVEL_TYPE == 1
LEVEL_ID == 2
LEVEL_CLASS == 3
LEVEL_CLASS_2 == 4
LEVEL_STATUS == 5
LEVEL_STATUS_2 == 6
LEVEL_TOTAL_NUM == 7

\* An unsigned int hash h is the pair <<h \div 2^16, h % 2^16>>, which keeps
\* the arithmetic below 2^31
HASH_LIMB == 65536
HASH_SEED == 5381
HASH_INIT == <<0, HASH_SEED>>
HASH_ZERO == <<0, 0>>

\* Body of v, v being computed once
With(v, Body(_)) == CHOOSE r \in {Body(x) : x \in {v}} : TRUE

(***************************************************************************)
(* String helpers (libc)                                                   *)
(***************************************************************************)
RECURSIVE StrLess(_, _)
\* strcmp(a, b) < 0
StrLess(a, b) ==
    IF b = <<>> THEN FALSE
    ELSE IF a = <<>> THEN TRUE
    ELSE IF a[1] # b[1] THEN a[1] < b[1]
    ELSE StrLess(Tail(a), Tail(b))

SeqToSet(q) == {q[i] : i \in 1..Len(q)}

\* the string list with name inserted at its sorted position
InsertSorted(list, name) ==
    LET k == Cardinality({i \in 1..Len(list) : StrLess(list[i], name)})
    IN  SubSeq(list, 1, k) \o <<name>> \o SubSeq(list, k + 1, Len(list))

\* strlist_sorted_add(&list, name): 0 when name was added, non-zero when the
\* list already holds it
strlist_sorted_add(list, name) ==
    IF name \in SeqToSet(list)
    THEN [ret |-> 1, list |-> list]
    ELSE [ret |-> 0, list |-> InsertSorted(list, name)]

(***************************************************************************)
(* Simple-selector nodes                                                   *)
(***************************************************************************)
\* calloc(sizeof(css_selector_node_t), 1)
NullNode ==
    [id |-> <<>>, type |-> <<>>, classes |-> <<>>, status |-> <<>>,
     fullname |-> <<>>, rank |-> 0]

RECURSIVE MatchList(_, _, _)
\* the loops of css_selector_node_match over one list of sn2 (list2) from
\* index i on, list1 being the list of sn1 with at least one name: each name
\* of list2 is compared with the name of list1 at the same index i, as often
\* as list1 has names.  Index Len(list1) + 1 of list1 is the NULL terminator
\* and the indexes after it lie outside the array: comparing with them has
\* no defined outcome, and the call may return either value.
MatchList(list1, list2, i) ==
    IF i > Len(list2) THEN {TRUE}
    ELSE IF i > Len(list1) THEN BOOLEAN
    ELSE IF list2[i] = list1[i] THEN MatchList(list1, list2, i + 1)
    ELSE {FALSE}

\* the block `if (sn2->classes) { ... }` of css_selector_node_match, and the
\* one for the states: the values of "the block did not return FALSE"
MatchBlock(list1, list2) ==
    IF list2 = <<>> THEN {TRUE}
    ELSE IF list1 = <<>> THEN {FALSE}
    ELSE MatchList(list1, list2, 1)

\* css_selector_node_match(sn1, sn2): the values the call may return
css_selector_node_match(sn1, sn2) ==
    IF sn2.id # <<>> /\ (sn1.id = <<>> \/ sn1.id # sn2.id) THEN {FALSE}
    ELSE IF /\ sn2.type # <<>> /\ sn2.type # STAR
            /\ (sn1.type = <<>> \/ sn1.type # sn2.type) THEN {FALSE}
    ELSE {c /\ t : c \in MatchBlock(sn1.classes, sn2.classes),
                   t \in MatchBlock(sn1.status, sn2.status)}

RECURSIVE JoinPrefixed(_, _)
\* strcat(fullname, prefix); strcat(fullname, list[i]) for each i
JoinPrefixed(prefix, list) ==
    IF list = <<>> THEN <<>>
    ELSE <<prefix>> \o Head(list) \o JoinPrefixed(prefix, Tail(list))

\* a css_selector_node_update that writes the states in front of the classes
NodeFullnameStatusFirst(node) ==
    node.type
    \o (IF node.id # <<>> THEN <<CH_HASH>> \o node.id ELSE <<>>)
    \o JoinPrefixed(CH_COLON, node.status)
    \o JoinPrefixed(CH_DOT, node.classes)

\* the string css_selector_node_update builds
NodeFullname(node) ==
    node.type
    \o (IF node.id # <<>> THEN <<CH_HASH>> \o node.id ELSE <<>>)
    \o JoinPrefixed(CH_DOT, node.classes)
    \o JoinPrefixed(CH_COLON, node.status)

css_selector_node_update(node) ==
    [node EXCEPT
        !.rank = (IF node.id # <<>> THEN ID_RANK ELSE 0)
               + (IF node.type # <<>> THEN TYPE_RANK ELSE 0)
               + CLASS_RANK * Len(node.classes)
               + PCLASS_RANK * Len(node.status),
        !.fullname = NodeFullname(node)]

RECURSIVE CopyStrList(_, _)
\* for (i = 0; src[i]; ++i) strlist_sorted_add(&dst, src[i])
CopyStrList(dst, src) ==
    IF src = <<>> THEN dst
    ELSE CopyStrList(strlist_sorted_add(dst, Head(src)).list, Tail(src))

\* css_selector_node_copy(dst, src) on a dst that calloc zeroed
css_selector_node_copy(dst, src) ==
    [dst EXCEPT
        !.id = src.id,
        !.type = src.type,
        !.fullname = src.fullname,
        !.classes = CopyStrList(dst.classes, src.classes),
        !.status = CopyStrList(dst.status, src.status)]

\* SelectorNode_Save(node, name, len, type): the rank gained (0 = rejected)
\* and the node afterwards; type 0 is the bare type name
SelectorNode_Save(node, name, len, type) ==
    IF len < 1 THEN [rank |-> 0, node |-> node]
    ELSE IF type = 0 THEN
        IF node.type # <<>> THEN [rank |-> 0, node |-> node]
        ELSE [rank |-> TYPE_RANK, node |-> [node EXCEPT !.type = name]]
    ELSE IF type = CH_COLON THEN
        LET r == strlist_sorted_add(node.status, name)
        IN  IF r.ret = 0
            THEN [rank |-> PCLASS_RANK, node |-> [node EXCEPT !.status = r.list]]
            ELSE [rank |-> 0, node |-> node]
    ELSE IF type = CH_DOT THEN
        LET r == strlist_sorted_add(node.classes, name)
        IN  IF r.ret = 0
            THEN [rank |-> CLASS_RANK, node |-> [node EXCEPT !.classes = r.list]]
            ELSE [rank |-> 0, node |-> node]
    ELSE IF type = CH_HASH THEN
        IF node.id # <<>> THEN [rank |-> 0, node |-> node]
        ELSE [rank |-> ID_RANK, node |-> [node EXCEPT !.id = name]]
    ELSE [rank |-> 0, node |-> node]

(***************************************************************************)
(* Selectors                                                               *)
(***************************************************************************)
RECURSIVE HashBytes(_, _)
\* hash = ((hash << 5) + hash) + byte for each byte, in unsigned int
\* (modulo 2^32)
HashBytes(hash, str) ==
    IF str = <<>> THEN hash
    ELSE LET lo == hash[2] * 33 + Head(str)
             hi == hash[1] * 33 + (lo \div HASH_LIMB)
         IN  With(<<hi % HASH_LIMB, lo % HASH_LIMB>>,
                  LAMBDA h : HashBytes(h, Tail(str)))

RECURSIVE HashNodes(_, _)
HashNodes(hash, nodes) ==
    IF nodes = <<>> THEN hash
    ELSE With(HashBytes(hash, Head(nodes).fullname),
              LAMBDA h : HashNodes(h, Tail(nodes)))

css_selector_update(s) ==
    [s EXCEPT !.hash = HashNodes(HASH_INIT, s.nodes)]

\* calloc(sizeof(css_selector_t), 1) with batch_num set
NewSelector(batch) ==
    [rank |-> 0, batch_num |-> batch, length |-> 0, hash |-> HASH_ZERO,
     nodes |-> <<>>]

\* a parser that takes every printable character for a name character
IsNameCharPrintable(c) == c > CH_SPACE

IsNameChar(c) ==
    \/ c = CH_MINUS \/ c = CH_UNDERSCORE \/ c = CH_STAR
    \/ (c >= CH_a /\ c <= CH_z)
    \/ (c >= CH_UA /\ c <= CH_UZ)
    \/ (c >= CH_0 /\ c <= CH_9)

IsSpaceChar(c) == c \in {CH_SPACE, CH_CR, CH_LF, CH_TAB}

IsPrefixChar(c) == c \in {CH_COLON, CH_DOT, CH_HASH}

\* a css_selector_create that gives every selector the same batch number
ParseStartSameBatch(batch) ==
    [s |-> NewSelector(1), name |-> <<>>, si |-> 0, type |-> 0,
     is_saving |-> FALSE, has_node |-> FALSE, node |-> NullNode,
     null |-> FALSE]

\* the locals of css_selector_create before its loop; node = NULL is
\* has_node = FALSE, nodes are s->nodes[0 .. si-1], null = "returned NULL"
ParseStart(batch) ==
    [s |-> NewSelector(batch), name |-> <<>>, si |-> 0, type |-> 0,
     is_saving |-> FALSE, has_node |-> FALSE, node |-> NullNode,
     null |-> FALSE]

\* one iteration of the for loop of css_selector_create on character c
ParseChar(st0, c) ==
    LET alloc == ~st0.has_node /\ st0.is_saving
        st == IF alloc THEN [st0 EXCEPT !.has_node = TRUE, !.node = NullNode]
              ELSE st0
        saved == SelectorNode_Save(st.node, st.name, Len(st.name), st.type)
    IN  IF alloc /\ st.si >= CSS_SELECTOR_MAX_DEPTH THEN [st EXCEPT !.null = TRUE]
        ELSE IF IsPrefixChar(c) THEN
            IF ~st.is_saving
            THEN [st EXCEPT !.is_saving = TRUE, !.type = c]
            ELSE IF saved.rank > 0
            THEN [st EXCEPT !.is_saving = TRUE, !.type = c,
                            !.node = saved.node,
                            !.s.rank = @ + saved.rank, !.name = <<>>]
            ELSE [st EXCEPT !.is_saving = TRUE, !.type = c,
                            !.has_node = FALSE, !.node = NullNode,
                            !.name = <<>>]
        ELSE IF IsSpaceChar(c) THEN
            IF ~st.is_saving
            THEN [st EXCEPT !.name = <<>>, !.has_node = FALSE, !.node = NullNode]
            ELSE IF saved.rank > 0
            THEN [st EXCEPT !.is_saving = FALSE,
                            !.s.nodes =
                                Append(@, css_selector_node_update(saved.node)),
                            !.s.rank = @ + saved.rank,
                            !.has_node = FALSE, !.node = NullNode,
                            !.name = <<>>, !.si = @ + 1]
            ELSE [st EXCEPT !.is_saving = FALSE,
                            !.has_node = FALSE, !.node = NullNode,
                            !.name = <<>>]
        ELSE IF IsNameChar(c) THEN
            IF ~st.is_saving
            THEN [st EXCEPT !.type = 0, !.is_saving = TRUE,
                            !.name = Append(@, c)]
            ELSE [st EXCEPT !.name = Append(@, c)]
        ELSE [st EXCEPT !.null = TRUE]

\* the code after the loop of css_selector_create
ParseEnd(st0) ==
    LET alloc == st0.is_saving /\ ~st0.has_node
        st == IF alloc THEN [st0 EXCEPT !.has_node = TRUE, !.node = NullNode]
              ELSE st0
        saved == SelectorNode_Save(st.node, st.name, Len(st.name), st.type)
        st2 == IF ~st.is_saving THEN st
               ELSE IF saved.rank > 0
               THEN [st EXCEPT !.s.nodes =
                                   Append(@, css_selector_node_update(saved.node)),
                               !.s.rank = @ + saved.rank,
                               !.si = @ + 1]
               ELSE st
    IN  IF alloc /\ st.si >= CSS_SELECTOR_MAX_DEPTH THEN [st EXCEPT !.null = TRUE]
        ELSE [st2 EXCEPT !.s = css_selector_update([@ EXCEPT !.length = st2.si])]

RECURSIVE ParseLoop(_, _, _, _)
\* the iterations of the for loop on str[lo..hi], from state st; the loop
\* is left as soon as NULL is returned
ParseLoop(st, str, lo, hi) ==
    IF st.null \/ lo > hi THEN st
    ELSE IF lo = hi THEN ParseChar(st, str[lo])
    ELSE With(ParseLoop(st, str, lo, (lo + hi) \div 2),
              LAMBDA st1 : ParseLoop(st1, str, (lo + hi) \div 2 + 1, hi))

\* css_selector_create(selector) for a non-NULL text, when the static
\* counter is batch before the call: ok = FALSE is the NULL return
css_selector_create(selector, batch) ==
    LET st == ParseLoop(ParseStart(batch + 1), selector, 1, Len(selector))
        fin == IF st.null THEN st ELSE ParseEnd(st)
    IN  [ok |-> ~fin.null, s |-> fin.s]

\* css_selector_create(NULL) when the static counter is batch before the call
css_selector_create_NULL(batch) == NewSelector(batch + 1)

\* line 1476: the selector has no room for another node
AppendFull(length) == length >= CSS_SELECTOR_MAX_DEPTH

\* css_selector_append(selector, node): the return value and the selector
\* afterwards
css_selector_append(selector, node) ==
    IF AppendFull(selector.length) THEN [ret |-> -1, s |-> selector]
    ELSE [ret |-> 0,
          s |-> [selector EXCEPT
                    !.nodes = Append(@, node),
                    !.length = @ + 1,
                    !.hash = HashBytes(@, node.fullname)]]

\* css_selector_duplicate(selector); the new object first gets a fresh
\* batch number from css_selector_create(NULL), then the source's
css_selector_duplicate(selector) ==
    [rank |-> selector.rank,
     batch_num |-> selector.batch_num,
     length |-> selector.length,
     hash |-> selector.hash,
     nodes |-> [i \in 1..selector.length |->
                   css_selector_node_copy(NullNode, selector.nodes[i])]]

(***************************************************************************)
(* Selector-name expansion                                                 *)
(*                                                                         *)
(* A collector is [level, class_i, status_i, name, node]; name is the      *)
(* C string held in sfinder->name (name_i is always 0).  Every operator    *)
(* returns the collector, the output list and the count afterwards.        *)
(***************************************************************************)
\* css_selector_init_name_collector(sfinder, snode)
css_selector_init_name_collector(snode) ==
    [level |-> LEVEL_NONE, class_i |-> 0, status_i |-> 0, name |-> <<>>,
     node |-> snode]

CollectResult(sf, list, count) == [sf |-> sf, list |-> list, count |-> count]

\* a LEVEL_CLASS_2 that also passes over the class after the one LEVEL_CLASS
\* stands on
Class2SkipsNext(i, class_i) == i <= class_i + 1

\* line 1259: the classes LEVEL_CLASS_2 passes over (0-based index i)
Class2Skips(i, class_i) == i <= class_i

\* line 1316: the states LEVEL_STATUS_2 passes over (0-based index i)
Status2Skips(i, status_i) == i <= status_i

\* line 1332: the levels the trailing loop passes over
TailSkips(i) == i = LEVEL_STATUS_2 \/ i = LEVEL_CLASS_2

RECURSIVE css_selector_collect_name(_, _)
RECURSIVE CollectTailLoop(_, _, _, _)
RECURSIVE CollectClassWhile(_, _, _)
RECURSIVE CollectClassLoop(_, _, _, _, _)
RECURSIVE CollectClass2Loop(_, _, _, _, _)
RECURSIVE CollectStatusLoop(_, _, _, _, _)
RECURSIVE CollectStatus2Loop(_, _, _, _, _)

\* for (i = ...; i < LEVEL_TOTAL_NUM; ++i) at the end of the function
CollectTailLoop(sf, list, count, i) ==
    IF i >= LEVEL_TOTAL_NUM THEN CollectResult(sf, list, count)
    ELSE IF TailSkips(i) THEN CollectTailLoop(sf, list, count, i + 1)
    ELSE LET r == css_selector_collect_name([sf EXCEPT !.level = i], list)
         IN  CollectTailLoop(r.sf, r.list, count + r.count, i + 1)

\* while (sfinder->level < LEVEL_TOTAL_NUM) of LEVEL_CLASS
CollectClassWhile(sf, list, count) ==
    IF sf.level >= LEVEL_TOTAL_NUM THEN CollectResult(sf, list, count)
    ELSE LET r == css_selector_collect_name(sf, list)
         IN  CollectClassWhile([r.sf EXCEPT !.level = @ + 1], r.list,
                               count + r.count)

\* the for loop of LEVEL_CLASS; base is fullname up to and including '.'
CollectClassLoop(sf, list, count, base, i) ==
    IF i >= Len(sf.node.classes) THEN CollectResult(sf, list, count)
    ELSE LET nm == base \o sf.node.classes[i + 1]
             sf1 == [sf EXCEPT !.level = @ + 1, !.class_i = i, !.name = nm]
             r == CollectClassWhile(sf1, Append(list, nm), count)
         IN  CollectClassLoop([r.sf EXCEPT !.level = LEVEL_CLASS], r.list,
                              r.count, base, i + 1)

\* the for loop of LEVEL_CLASS_2
CollectClass2Loop(sf, list, count, base, i) ==
    IF i >= Len(sf.node.classes) THEN CollectResult(sf, list, count)
    ELSE IF Class2Skips(i, sf.class_i)
    THEN CollectClass2Loop(sf, list, count, base, i + 1)
    ELSE LET nm == base \o sf.node.classes[i + 1]
             sf1 == [sf EXCEPT !.name = nm, !.class_i = i]
             r1 == css_selector_collect_name(sf1, Append(list, nm))
             sf2 == [r1.sf EXCEPT !.class_i = 0, !.level = LEVEL_STATUS]
             r2 == css_selector_collect_name(sf2, r1.list)
         IN  CollectClass2Loop([r2.sf EXCEPT !.level = LEVEL_CLASS_2], r2.list,
                               count + r1.count + r2.count, base, i + 1)

\* the for loop of LEVEL_STATUS
CollectStatusLoop(sf, list, count, base, i) ==
    IF i >= Len(sf.node.status) THEN CollectResult(sf, list, count)
    ELSE LET nm == base \o sf.node.status[i + 1]
             sf1 == [sf EXCEPT !.status_i = i, !.name = nm]
             r == css_selector_collect_name(sf1, Append(list, nm))
         IN  CollectStatusLoop(r.sf, r.list, count + r.count, base, i + 1)

\* the for loop of LEVEL_STATUS_2; base is fullname on entry
CollectStatus2Loop(sf, list, count, base, i) ==
    IF i >= Len(sf.node.status) THEN CollectResult(sf, list, count)
    ELSE IF Status2Skips(i, sf.status_i)
    THEN CollectStatus2Loop(sf, list, count, base, i + 1)
    ELSE LET nm == base \o <<CH_COLON>> \o sf.node.status[i + 1]
             sf1 == [sf EXCEPT !.name = nm, !.status_i = i]
             r == css_selector_collect_name(sf1, Append(list, nm))
         IN  CollectStatus2Loop([r.sf EXCEPT !.status_i = 0], r.list,
                                count + r.count, base, i + 1)

css_selector_collect_name(sf, list) ==
    LET fullname == sf.name
        old_level == sf.level
        TailOf(sf1, list1) ==
            LET r == CollectTailLoop(sf1, list1, 0, sf1.level + 1)
            IN  CollectResult([r.sf EXCEPT !.name = fullname,
                                           !.level = old_level],
                              r.list, r.count)
    IN  IF sf.level = LEVEL_TYPE THEN
            IF sf.node.type = <<>> THEN CollectResult(sf, list, 0)
            ELSE TailOf([sf EXCEPT !.name = sf.node.type],
                        Append(list, sf.node.type))
        ELSE IF sf.level = LEVEL_ID THEN
            IF sf.node.id = <<>> THEN CollectResult(sf, list, 0)
            ELSE LET nm == fullname \o <<CH_HASH>> \o sf.node.id
                 IN  TailOf([sf EXCEPT !.name = nm], Append(list, nm))
        ELSE IF sf.level = LEVEL_CLASS THEN
            IF sf.node.classes = <<>> THEN CollectResult(sf, list, 0)
            ELSE LET r == CollectClassLoop(sf, list, 0,
                                           fullname \o <<CH_DOT>>, 0)
                 IN  CollectResult([r.sf EXCEPT !.level = LEVEL_CLASS,
                                                !.name = fullname,
                                                !.class_i = 0],
                                   r.list, r.count)
        ELSE IF sf.level = LEVEL_CLASS_2 THEN
            IF sf.node.classes = <<>> THEN CollectResult(sf, list, 0)
            ELSE LET r == CollectClass2Loop(sf, list, 0,
                                            fullname \o <<CH_DOT>>, 0)
                 IN  CollectResult([r.sf EXCEPT !.name = fullname,
                                                !.level = LEVEL_CLASS_2],
                                   r.list, r.count)
        ELSE IF sf.level = LEVEL_STATUS THEN
            IF sf.node.status = <<>> THEN CollectResult(sf, list, 0)
            ELSE LET r == CollectStatusLoop(
                              [sf EXCEPT !.level = LEVEL_STATUS_2], list, 0,
                              fullname \o <<CH_COLON>>, 0)
                 IN  CollectResult([r.sf EXCEPT !.level = LEVEL_STATUS,
                                                !.name = fullname,
                                                !.status_i = 0],
                                   r.list, r.count)
        ELSE IF sf.level = LEVEL_STATUS_2 THEN
            IF sf.node.status = <<>> THEN CollectResult(sf, list, 0)
            ELSE LET r == CollectStatus2Loop(sf, list, 0, fullname, 0)
                 IN  CollectResult([r.sf EXCEPT !.name = fullname],
                                   r.list, r.count)
        ELSE TailOf(sf, list)

\* css_selector_node_get_name_list(sn, names): the names appended to an
\* empty list
css_selector_node_get_name_list(sn) ==
    css_selector_collect_name(css_selector_init_name_collector(sn), <<>>).list

(***************************************************************************)
(* Style declarations and property lists                                   *)
(*                                                                         *)
(* A slot is 0 when is_valid is FALSE and the value (> 0) otherwise.  A    *)
(* declaration is [length, sheet]; sheet holds the allocated slots, slot   *)
(* key at index key + 1.                                                   *)
(***************************************************************************)
\* css.count after css_init: the number of property keys (STYLE_KEY_TOTAL in
\* the program, kept small here)
PropCount == 2

css_get_property_count == PropCount

\* css_style_declaration_create(): length slots, and one more allocated
css_style_declaration_create ==
    [length |-> css_get_property_count,
     sheet |-> [i \in 1..(css_get_property_count + 1) |-> 0]]

RECURSIVE MergeSlots(_, _, _)
\* the loop of css_style_properties_merge from slot i on
MergeSlots(list, sheet, i) ==
    IF i >= sheet.length THEN list
    ELSE IF sheet.sheet[i + 1] = 0 THEN MergeSlots(list, sheet, i + 1)
    ELSE MergeSlots(Append(list, [key |-> i, style |-> sheet.sheet[i + 1]]),
                    sheet, i + 1)

\* css_style_properties_merge(list, sheet): list afterwards
css_style_properties_merge(list, sheet) == MergeSlots(list, sheet, 0)

\* line 1122: whether merge_properties reallocates the sheet for this key
MergeNeedsGrow(key, length) == key > length

\* one iteration of the loop of css_style_declaration_merge_properties; for
\* key = length on a sheet of length slots the slot lies outside the
\* allocation and the store does not reach the declaration
MergeProperty(ss, snode) ==
    LET grown == IF MergeNeedsGrow(snode.key, ss.length)
                 THEN [length |-> snode.key + 1,
                       sheet |-> [i \in 1..(snode.key + 1) |->
                                     IF i <= ss.length THEN ss.sheet[i] ELSE 0]]
                 ELSE ss
    IN  IF snode.key + 1 > Len(grown.sheet) THEN grown
        ELSE IF grown.sheet[snode.key + 1] = 0 /\ snode.style # 0
        THEN [grown EXCEPT !.sheet[snode.key + 1] = snode.style]
        ELSE grown

RECURSIVE css_style_declaration_merge_properties(_, _)
\* css_style_declaration_merge_properties(ss, list): ss afterwards
css_style_declaration_merge_properties(ss, list) ==
    IF list = <<>> THEN ss
    ELSE css_style_declaration_merge_properties(MergeProperty(ss, Head(list)),
                                                Tail(list))

\* the realloc and the loop that follows it in css_style_declaration_merge
\* and css_style_declaration_replace
GrowTo(dest_ss, length) ==
    IF length > dest_ss.length
    THEN [length |-> length,
          sheet |-> [i \in 1..length |->
                        IF i <= dest_ss.length THEN dest_ss.sheet[i] ELSE 0]]
    ELSE dest_ss

\* a css_style_declaration_merge that copies every valid slot of src
MergeCopiesValid(d, s) == s # 0

\* line 1105: whether css_style_declaration_merge copies slot s over slot d
MergeCopies(d, s) == s # 0 /\ d = 0

\* css_style_declaration_merge(dest, src): dest afterwards
css_style_declaration_merge(dest_ss, src_ss) ==
    LET grown == GrowTo(dest_ss, src_ss.length)
    IN  [grown EXCEPT !.sheet =
            [i \in DOMAIN @ |->
                IF i <= src_ss.length /\ MergeCopies(@[i], src_ss.sheet[i])
                THEN src_ss.sheet[i] ELSE @[i]]]

\* a css_style_declaration_clear that leaves the slots as they are
ClearNothing(ss) == ss

\* css_style_declaration_clear(ss): ss afterwards
css_style_declaration_clear(ss) ==
    [ss EXCEPT !.sheet = [i \in DOMAIN @ |-> 0]]

\* css_style_declaration_replace(dest, src): dest afterwards and the count
\* returned
css_style_declaration_replace(dest_ss, src_ss) ==
    LET grown == GrowTo(dest_ss, src_ss.length)
    IN  [ss |-> [grown EXCEPT !.sheet =
                    [i \in DOMAIN @ |->
                        IF i <= src_ss.length /\ src_ss.sheet[i] # 0
                        THEN src_ss.sheet[i] ELSE @[i]]],
         count |-> Cardinality({i \in 1..src_ss.length : src_ss.sheet[i] # 0})]

\* a caller starts from two declarations css_style_declaration_create made
InitDecls ==
    /\ decl_dest = css_style_declaration_create
    /\ decl_src = css_style_declaration_create

(***************************************************************************)
(* The style-link trie                                                     *)
(*                                                                         *)
(* A dict_t is a function on its keys.  css.groups is a sequence of dicts, *)
(* depth d at index d + 1, from fullname to a link group                   *)
(* [snode, name, links]; links maps a key to a link                        *)
(* [selector, styles, parents]; parents maps a fullname to a link pointer  *)
(* [depth, group, key].                                                    *)
(***************************************************************************)
EmptyDict == [x \in {} |-> 0]

DictAdd(dict, key, val) == (key :> val) @@ dict

LinkPtr(depth, group, key) == [depth |-> depth, group |-> group, key |-> key]

LinkAt(g, ptr) == g[ptr.depth + 1][ptr.group].links[ptr.key]

\* css_style_link_create()
css_style_link_create ==
    [selector |-> <<>>, styles |-> <<>>, parents |-> EmptyDict]

\* css_style_link_group_create(snode)
css_style_link_group_create(snode) ==
    [snode |-> css_selector_node_copy(NullNode, snode),
     name |-> snode.fullname,
     links |-> EmptyDict]

\* the link key at depth 0
ParentKeyAtTarget == STAR

\* a join that puts the node's name behind the text of the nodes to its right
JoinSelectorBehind(name, rest) == rest \o <<CH_SPACE>> \o name

\* sprintf(buf, "%s %s", sn->fullname, fullname)
JoinSelector(name, rest) == name \o <<CH_SPACE>> \o rest

\* one iteration of the for loop of css_select_style_properties at depth i;
\* prev is the pointer to the link of depth i - 1 (parents = prev's parents
\* map), buf the running selector text.  Yields the trie, the link of this
\* depth, fullname and buf.
SelectStep(g, selector, i, prev, buf) ==
    LET right == selector.length - 1 - i
        sn == selector.nodes[right + 1]
        g1 == IF Len(g) < i + 1 THEN Append(g, EmptyDict) ELSE g
        g2 == IF sn.fullname \in DOMAIN g1[i + 1] THEN g1
              ELSE [g1 EXCEPT ![i + 1] =
                        DictAdd(@, sn.fullname,
                                css_style_link_group_create(sn))]
        key == IF i = 0 THEN ParentKeyAtTarget ELSE buf
        g3 == IF key \in DOMAIN g2[i + 1][sn.fullname].links THEN g2
              ELSE [g2 EXCEPT ![i + 1][sn.fullname].links =
                        DictAdd(@, key,
                                [css_style_link_create
                                    EXCEPT !.selector = key])]
        link == LinkPtr(i, sn.fullname, key)
        g4 == IF i > 0 /\ sn.fullname \notin DOMAIN LinkAt(g3, prev).parents
              THEN [g3 EXCEPT ![prev.depth + 1][prev.group]
                                 .links[prev.key].parents =
                        DictAdd(@, sn.fullname, link)]
              ELSE g3
    IN  [groups |-> g4,
         link |-> link,
         fullname |-> IF i = 0 THEN sn.fullname ELSE buf,
         buf |-> IF i = 0 THEN sn.fullname
                 ELSE JoinSelector(sn.fullname, buf)]

RECURSIVE SelectLoop(_, _, _)
\* the for loop of css_select_style_properties from depth i on, st being what
\* the iterations before left
SelectLoop(st, selector, i) ==
    IF selector.length - 1 - i < 0 THEN st
    ELSE With(SelectStep(st.groups, selector, i, st.link, st.buf),
              LAMBDA st1 : SelectLoop(st1, selector, i + 1))

\* css_select_style_properties for a selector whose loop ran at least once:
\* the loop, then the rule appended to the styles of the last link
SelectStore(g, selector, id) ==
    With(SelectLoop([groups |-> g, link |-> LinkPtr(0, <<>>, <<>>),
                     fullname |-> <<>>, buf |-> <<>>], selector, 0),
         LAMBDA r :
             [groups |-> [r.groups EXCEPT ![r.link.depth + 1][r.link.group]
                                            .links[r.link.key].styles =
                              Append(@, [id |-> id,
                                         rank |-> selector.rank,
                                         selector |-> r.fullname,
                                         batch_num |-> selector.batch_num,
                                         list |-> <<>>])],
              found |-> TRUE,
              link |-> r.link])

\* a css_select_style_properties that creates the map of depth 0 before it
\* looks at the selector
SelectCreatesGroup(g, selector, id) ==
    IF selector.length < 1
    THEN [groups |-> IF g = <<>> THEN <<EmptyDict>> ELSE g, found |-> FALSE,
          link |-> LinkPtr(0, <<>>, <<>>)]
    ELSE SelectStore(g, selector, id)

\* css_select_style_properties(selector, space) when id numbers the new
\* rule: the trie afterwards, found = FALSE for the NULL return, and the
\* link that received the rule
css_select_style_properties(g, selector, id) ==
    IF selector.length < 1
    THEN [groups |-> g, found |-> FALSE, link |-> LinkPtr(0, <<>>, <<>>)]
    ELSE SelectStore(g, selector, id)

\* a css_add_style_sheet that leaves the cache as it is
KeepCache(c) == c

\* line 1791: what css_add_style_sheet does to the cache
FlushCache(c) == EmptyDict

\* css_add_style_sheet(selector, style, space): the trie and the cache
\* afterwards
css_add_style_sheet(g, c, selector, style, id) ==
    With(css_select_style_properties(g, selector, id),
         LAMBDA r :
             [ret |-> 0,
              cache |-> FlushCache(c),
              stored |-> r.found,
              link |-> r.link,
              groups |-> IF r.found
                         THEN [r.groups EXCEPT ![r.link.depth + 1][r.link.group]
                                   .links[r.link.key]
                                   .styles[Len(LinkAt(r.groups, r.link).styles)]
                                   .list =
                                   css_style_properties_merge(@, style)]
                         ELSE r.groups])

(***************************************************************************)
(* Query                                                                   *)
(*                                                                         *)
(* A query result is [count, list, visited, expanded]: list is the output  *)
(* list, visited the rules in the order the walk met them and expanded the *)
(* <<node index, candidate names>> pairs of the nodes whose names the walk *)
(* expanded (both histories of the walk, not program state).               *)
(***************************************************************************)
\* an insertion that also goes in front of rules of equal rank and batch_num
InsertsBeforeOrAtTie(snode, out_snode) ==
    \/ snode.rank > out_snode.rank
    \/ /\ snode.rank = out_snode.rank
       /\ snode.batch_num >= out_snode.batch_num

\* lines 1815-1826: snode goes in front of out_snode
InsertsBefore(snode, out_snode) ==
    \/ snode.rank > out_snode.rank
    \/ /\ snode.rank = out_snode.rank
       /\ snode.batch_num > out_snode.batch_num

\* the index the inner loop of StyleLink_GetStyleSheets stops at, Len(outlist)
\* when found stays FALSE
InsertIndex(snode, outlist) ==
    LET hits == {i \in 1..Len(outlist) : InsertsBefore(snode, outlist[i])}
    IN  IF hits = {} THEN Len(outlist)
        ELSE (CHOOSE i \in hits : \A j \in hits : i <= j) - 1

\* list_insert(outlist, i, snode) / list_append(outlist, snode)
ListInsert(outlist, i, snode) ==
    SubSeq(outlist, 1, i) \o <<snode>> \o SubSeq(outlist, i + 1, Len(outlist))

RECURSIVE InsertStyles(_, _)
InsertStyles(styles, outlist) ==
    IF styles = <<>> THEN outlist
    ELSE InsertStyles(Tail(styles),
                      ListInsert(outlist, InsertIndex(Head(styles), outlist),
                                 Head(styles)))

\* StyleLink_GetStyleSheets(link, outlist): outlist afterwards
StyleLink_GetStyleSheets(link, outlist) == InsertStyles(link.styles, outlist)

\* lines 1885-1886: the candidate names of the target node
TargetNames(sn) == css_selector_node_get_name_list(sn) \o <<STAR>>

\* line 1851: the candidate names of an ancestor node
AncestorNames(sn) == css_selector_node_get_name_list(sn)

\* the keys of a dict in the order its iterator yields them (taken to be
\* string order; the depth-0 groups hold one link only)
RECURSIVE DictKeys(_)
DictKeys(dict) ==
    IF DOMAIN dict = {} THEN <<>>
    ELSE LET k == CHOOSE x \in DOMAIN dict :
                      \A y \in DOMAIN dict : x = y \/ StrLess(x, y)
         IN  <<k>> \o DictKeys([x \in DOMAIN dict \ {k} |-> dict[x]])

EmptyResult(list) ==
    [count |-> 0, list |-> list, visited |-> <<>>, expanded |-> {}]

RECURSIVE css_query_selector_from_link(_, _, _, _, _)
RECURSIVE QueryParents(_, _, _, _, _, _)
RECURSIVE QueryAncestors(_, _, _, _, _)

\* for (list_each(node, &names)) of css_query_selector_from_link
QueryParents(g, link, s, i, names, acc) ==
    IF names = <<>> THEN acc
    ELSE IF Head(names) \notin DOMAIN link.parents
    THEN QueryParents(g, link, s, i, Tail(names), acc)
    ELSE QueryParents(g, link, s, i, Tail(names),
             css_query_selector_from_link(
                 g, LinkAt(g, link.parents[Head(names)]), s, i, acc))

\* while (--i >= 0) of css_query_selector_from_link; i is the 0-based index
\* of the node the loop is about to leave
QueryAncestors(g, link, s, i, acc) ==
    IF i - 1 < 0 THEN acc
    ELSE LET names == AncestorNames(s.nodes[i])
             acc1 == [acc EXCEPT !.expanded = @ \cup {<<i - 1, names>>}]
         IN  QueryAncestors(g, link, s, i - 1,
                            QueryParents(g, link, s, i - 1, names, acc1))

\* css_query_selector_from_link(link, s, i, list)
css_query_selector_from_link(g, link, s, i, acc) ==
    QueryAncestors(g, link, s, i,
        [acc EXCEPT !.count = @ + Len(link.styles),
                    !.list = StyleLink_GetStyleSheets(link, @),
                    !.visited = @ \o link.styles])

RECURSIVE QueryLinks(_, _, _, _, _, _)
\* while ((entry = dict_next(iter))) of css_query_selector_from_group
QueryLinks(g, links, keys, s, i, acc) ==
    IF keys = <<>> THEN acc
    ELSE QueryLinks(g, links, Tail(keys), s, i,
                    css_query_selector_from_link(g, links[Head(keys)], s, i,
                                                 acc))

RECURSIVE QueryGroupNames(_, _, _, _, _, _)
\* for (list_each(node, &names)) of css_query_selector_from_group
QueryGroupNames(g, dict, names, s, i, acc) ==
    IF names = <<>> THEN acc
    ELSE IF Head(names) \notin DOMAIN dict
    THEN QueryGroupNames(g, dict, Tail(names), s, i, acc)
    ELSE LET slg == dict[Head(names)]
         IN  QueryGroupNames(g, dict, Tail(names), s, i,
                 QueryLinks(g, slg.links, DictKeys(slg.links), s, i, acc))

\* css_query_selector_from_group(group, name, s, list); name = <<>> is NULL
css_query_selector_from_group(g, group, name, s, list) ==
    IF Len(g) < group + 1 \/ s.length < 1 THEN EmptyResult(list)
    ELSE LET i == s.length - 1
             names == IF name # <<>> THEN <<name>>
                      ELSE TargetNames(s.nodes[i + 1])
             acc == [EmptyResult(list) EXCEPT !.expanded = {<<i, names>>}]
         IN  QueryGroupNames(g, g[group + 1], names, s, i, acc)

\* css_query_selector(s, list): the query from depth 0 with no name given
css_query_selector(g, s, list) ==
    css_query_selector_from_group(g, 0, <<>>, s, list)

(***************************************************************************)
(* Cascade and cache                                                       *)
(***************************************************************************)
RECURSIVE MergeRules(_, _)
\* for (list_each(node, &list)) of css_get_computed_style_with_cache
MergeRules(ss, list) ==
    IF list = <<>> THEN ss
    ELSE MergeRules(css_style_declaration_merge_properties(ss, Head(list).list),
                    Tail(list))

\* the declaration css_get_computed_style_with_cache builds on a cache miss
ComputeStyle(g, s) ==
    MergeRules(css_style_declaration_create, css_query_selector(g, s, <<>>).list)

\* a cache keyed by the selector's rank, as a number of the width of a hash
CacheKeyRank(s) == <<0, s.rank>>

\* the key under which the cache holds the declaration of s
CacheKey(s) == s.hash

\* css_get_computed_style_with_cache(s): the declaration returned and the
\* cache afterwards
css_get_computed_style_with_cache(g, c, s) ==
    IF CacheKey(s) \in DOMAIN c
    THEN [ss |-> c[CacheKey(s)], cache |-> c, hit |-> TRUE]
    ELSE LET ss == ComputeStyle(g, s)
         IN  [ss |-> ss, cache |-> DictAdd(c, CacheKey(s), ss), hit |-> FALSE]

\* css_get_computed_style(s, out_ss): *out_ss and the cache afterwards, and
\* the declaration the cache returned
css_get_computed_style(g, c, s, out_ss) ==
    With(css_get_computed_style_with_cache(g, c, s),
         LAMBDA r :
             [out_ss |-> css_style_declaration_replace(
                             css_style_declaration_clear(out_ss), r.ss).ss,
              cache |-> r.cache,
              ss |-> r.ss])

(***************************************************************************)
(* The keyword, value type and property registries                         *)
(*                                                                         *)
(* Registry names are TLA+ strings: the registries only compare them.  A   *)
(* dict_t is a function on its keys; dict_add fails on a key the dict      *)
(* holds.                                                                  *)
(***************************************************************************)
CSS_KEYWORD_NONE == 0
CSS_KEYWORD_AUTO == 1

\* css_init_cache .. css_init_properties: the dicts are created empty and
\* css.properties is NULL with css.properties_length 0
InitRegistry ==
    /\ keywords = EmptyDict
    /\ keyword_names = EmptyDict
    /\ types = EmptyDict
    /\ type_alias = EmptyDict
    /\ properties = <<>>

\* keyword_create(key, name); freed is set once keyword_destroy ran on it
keyword_create(key, name) == [key |-> key, name |-> name, freed |-> FALSE]

\* whether a lookup of name in css.keywords may find an entry (TRUE) and may
\* find none (FALSE): the entry of a destroyed keyword has a freed key string
\* and a freed value, and comparing against it has no defined outcome
KeywordFinds(kws, name) ==
    IF name \notin DOMAIN kws THEN {FALSE}
    ELSE IF kws[name].freed THEN {TRUE, FALSE}
    ELSE {TRUE}

\* css_register_keyword(key, name) when the lookup of name by the first
\* dict_add finds an entry or not (found)
css_register_keyword(kws, names, key, name, found) ==
    IF found
    THEN [ret |-> -1, keywords |-> kws, keyword_names |-> names]
    ELSE IF key \in DOMAIN names
    THEN [ret |-> -2,
          keywords |-> DictAdd(kws, name,
                               [keyword_create(key, name) EXCEPT !.freed = TRUE]),
          keyword_names |-> names]
    ELSE [ret |-> 0,
          keywords |-> DictAdd(kws, name, keyword_create(key, name)),
          keyword_names |-> DictAdd(names, key, keyword_create(key, name))]

\* css_get_keyword_key(str) when the lookup finds an entry or not
css_get_keyword_key(kws, str, found) ==
    IF found THEN kws[str].key ELSE -1

NullName == ""

\* css_get_keyword_name(val); NullName is the NULL return
css_get_keyword_name(names, val) ==
    IF val \in DOMAIN names THEN names[val].name ELSE NullName

\* css_register_value_type(type_name, parse): ok = FALSE is the NULL return
css_register_value_type(ts, type_name) ==
    IF type_name \in DOMAIN ts THEN [ok |-> FALSE, types |-> ts]
    ELSE [ok |-> TRUE, types |-> DictAdd(ts, type_name, [name |-> type_name])]

\* css_register_value_type_alias(type_name, alias) when the keyword lookup
\* of alias finds an entry or not: the value returned (not 0 on failure) and
\* the alias map afterwards
css_register_value_type_alias(kws, aliases, type_name, alias, found) ==
    IF css_get_keyword_key(kws, alias, found) # 0
    THEN [ret |-> -1, type_alias |-> aliases]
    ELSE IF alias \in DOMAIN aliases
    THEN [ret |-> -1, type_alias |-> aliases]
    ELSE [ret |-> 0, type_alias |-> DictAdd(aliases, alias, type_name)]

\* css_resolve_value_type(alias); NullName is the NULL return
css_resolve_value_type(aliases, alias) ==
    IF alias \in DOMAIN aliases THEN aliases[alias] ELSE NullName

\* css.properties_length
properties_length == Len(properties)

\* the content of an array slot realloc added and nothing has written
UninitSlot == "uninitialized"

\* css_register_property_with_key(key, name, syntax, initial_value) with
\* malloc returning a block: the array afterwards and the value returned
css_register_property_with_key(props, key, name, syntax) ==
    [ret |-> -1,
     properties |-> IF key >= Len(props)
                    THEN [i \in 1..key |->
                             IF i <= Len(props) THEN props[i] ELSE UninitSlot]
                    ELSE props]

\* css_register_property(name, syntax, initial_value)
css_register_property(props, name, syntax) ==
    css_register_property_with_key(props, Len(props), name, syntax)

NullProp == [key |-> -1, name |-> NullName]

\* an address that is not that of a property definition
WildProp == [key |-> -1, name |-> "?"]

\* the pointers a read of an array slot may give
SlotValues(slot) == IF slot = UninitSlot THEN {NullProp, WildProp} ELSE {slot}

\* css_get_property_by_key(key): the pointers it may return
css_get_property_by_key(props, key) ==
    IF key >= 0 /\ key < Len(props) THEN SlotValues(props[key + 1])
    ELSE {NullProp}

\* css_get_property(name): dict_fetch_value is given the array css.properties
\* in place of a dict
css_get_property(props, name) == {NullProp, WildProp}

(***************************************************************************)
(* Value definitions                                                       *)
(*                                                                         *)
(* A value-definition text is a sequence of one-character strings; NUL is  *)
(* the terminator.  The memory css_compile_valdef reads is the text, its   *)
(* terminator and the bytes that happen to follow it.                      *)
(***************************************************************************)
NUL == ""

WHITE_SPACE == {" ", "\n", "\r", "\t"}

CSS_VALDEF_PARSER_TARGET_NONE == "TARGET_NONE"
CSS_VALDEF_PARSER_TARGET_ERROR == "TARGET_ERROR"
CSS_VALDEF_PARSER_TARGET_KEYWORD == "TARGET_KEYWORD"
CSS_VALDEF_PARSER_TARGET_SIGN == "TARGET_SIGN"

CSS_VALDEF_SIGN_NONE == "SIGN_NONE"
CSS_VALDEF_SIGN_JUXTAPOSITION == "SIGN_JUXTAPOSITION"
CSS_VALDEF_SIGN_DOUBLE_AMPERSAND == "SIGN_DOUBLE_AMPERSAND"
CSS_VALDEF_SIGN_DOUBLE_BAR == "SIGN_DOUBLE_BAR"
CSS_VALDEF_SIGN_SINGLE_BAR == "SIGN_SINGLE_BAR"

VALDEF_BUFFER_SIZE == 512

\* *p for the address p of memory mem
CharAt(mem, p) == IF p \in DOMAIN mem THEN mem[p] ELSE NUL

\* css_valdef_parser_create(buffer_size)
css_valdef_parser_create(buffer_size) ==
    [cur |-> 0, buffer |-> <<>>, pos |-> 0, buffer_size |-> buffer_size,
     target |-> CSS_VALDEF_PARSER_TARGET_NONE]

\* css_valdef_parser_parse_target(parser) with *parser->cur = c
css_valdef_parser_parse_target(parser, c) ==
    IF c \in {"|", "&", "<"}
    THEN [parser EXCEPT !.target = CSS_VALDEF_PARSER_TARGET_SIGN,
                        !.buffer = <<>>, !.pos = 0, !.cur = @ - 1]
    ELSE IF c \in {">", "]"}
    THEN [parser EXCEPT !.target = CSS_VALDEF_PARSER_TARGET_ERROR]
    ELSE IF c \in WHITE_SPACE THEN parser
    ELSE [parser EXCEPT !.target = CSS_VALDEF_PARSER_TARGET_KEYWORD,
                        !.buffer = <<>>, !.pos = 0, !.cur = @ - 1]

\* the switch of css_valdef_parser_parse: only the target NONE has a handler
ParseSwitch(parser, c) ==
    IF parser.target = CSS_VALDEF_PARSER_TARGET_NONE
    THEN css_valdef_parser_parse_target(parser, c)
    ELSE parser

RECURSIVE ParseWhile(_, _, _)
\* the while loop of css_valdef_parser_parse after size iterations
ParseWhile(parser, mem, size) ==
    IF CharAt(mem, parser.cur) = NUL \/ size >= parser.buffer_size
    THEN [parser |-> parser, size |-> size]
    ELSE IF parser.target = CSS_VALDEF_PARSER_TARGET_ERROR
    THEN [parser |-> parser, size |-> 0]
    ELSE With(ParseSwitch(parser, CharAt(mem, parser.cur)),
              LAMBDA p1 : ParseWhile([p1 EXCEPT !.cur = @ + 1], mem, size + 1))

\* css_valdef_parser_parse(parser, str): the parser afterwards and the size
\* returned
css_valdef_parser_parse(parser, mem, str) ==
    ParseWhile([parser EXCEPT !.cur = str], mem, 0)

\* css_valdef_parser_output(parser, val): val afterwards
css_valdef_parser_output(parser, val) == val

RECURSIVE CompileFor(_, _, _, _)
\* the for loop of css_compile_valdef from p on, and the code after it
CompileFor(parser, mem, p, out_val) ==
    With(css_valdef_parser_parse(parser, mem, p),
         LAMBDA r :
             IF r.parser.target = CSS_VALDEF_PARSER_TARGET_ERROR
             THEN [ret |-> -1, out_val |-> out_val, p |-> p]
             ELSE IF r.size > 0
             THEN CompileFor(r.parser, mem, p + r.size, out_val)
             ELSE [ret |-> 0,
                   out_val |-> css_valdef_parser_output(r.parser, out_val),
                   p |-> p])

\* css_compile_valdef(str, out_val) for the text str followed in memory by
\* the bytes tail: the value returned, *out_val afterwards and the address
\* p the last css_valdef_parser_parse call was given
css_compile_valdef(str, tail, out_val) ==
    CompileFor(css_valdef_parser_create(VALDEF_BUFFER_SIZE),
               str \o <<NUL>> \o tail, 1, out_val)

SYNTAX_NAME_SIZE == 32

\* the names of the map of css_compile_syntax
SyntaxTypes ==
    {<<"l", "e", "n", "g", "t", "h">>,
     <<"p", "e", "r", "c", "e", "n", "t", "a", "g", "e">>,
     <<"k", "e", "y", "w", "o", "r", "d">>,
     <<"c", "o", "l", "o", "r">>,
     <<"i", "m", "a", "g", "e">>}

\* the values an int that was never assigned may hold: -1, 0, and one that
\* exceeds sizeof(name)
UninitNameLen == {-1, 0, SYNTAX_NAME_SIZE + 1}

\* one iteration of the for loop of css_compile_syntax on character c; the
\* test p == '|' compares the address with a character and never holds;
\* done is set by a return, and every return gives NULL or 0
SyntaxChar(st, c) ==
    IF c = "<" THEN [st EXCEPT !.name_len = 0, !.name = <<>>]
    ELSE IF c # ">" THEN
        IF st.name_len = -1 THEN st
        ELSE IF st.name_len < 0 \/ st.name_len > SYNTAX_NAME_SIZE
        THEN [st EXCEPT !.done = TRUE]
        ELSE [st EXCEPT !.name = Append(@, c), !.name_len = @ + 1]
    ELSE IF st.name \in SyntaxTypes
    THEN [st EXCEPT !.parsers = Append(@, st.name), !.name_len = -1]
    ELSE [st EXCEPT !.name_len = -1, !.done = TRUE]

RECURSIVE SyntaxLoop(_, _, _)
\* the for loop of css_compile_syntax from character i on
SyntaxLoop(st, str, i) ==
    IF st.done \/ i > Len(str) THEN st
    ELSE With(SyntaxChar(st, str[i]), LAMBDA st1 : SyntaxLoop(st1, str, i + 1))

\* css_compile_syntax(syntax_str, out) when name_len holds n on entry: the
\* value returned and out->parsers afterwards
css_compile_syntax(syntax_str, n) ==
    LET st == SyntaxLoop([name_len |-> n, name |-> <<>>, parsers |-> <<>>,
                          done |-> FALSE], syntax_str, 1)
    IN  [ret |-> 0, parsers |-> st.parsers]

\* *val before a value was parsed into it
NoValue == [type |-> <<>>]

\* a parser of the map of css_compile_syntax called on a text that the
\* parsers of the types in accepted accept: it returns 0 and stores a value
\* of its type, or returns -1 and leaves *val alone
TypeParser(type, accepted, val) ==
    IF type \in accepted THEN [ret |-> 0, val |-> [type |-> type]]
    ELSE [ret |-> -1, val |-> val]

RECURSIVE SyntaxParseBack(_, _, _, _)
\* a loop over the parsers from the last one to the first
SyntaxParseBack(parsers, accepted, val, i) ==
    IF i < 1 THEN [ret |-> -1, val |-> val]
    ELSE With(TypeParser(parsers[i], accepted, val),
              LAMBDA r : IF r.ret = 0 THEN r
                         ELSE SyntaxParseBack(parsers, accepted, r.val, i - 1))

\* a css_parse_style_value_with_syntax that tries the last parser first
ParseWithLastFirst(parsers, accepted, val) ==
    SyntaxParseBack(parsers, accepted, val, Len(parsers))

RECURSIVE SyntaxParseFrom(_, _, _, _)
\* the for loop of css_parse_style_value_with_syntax from parser i on
SyntaxParseFrom(parsers, accepted, val, i) ==
    IF i > Len(parsers) THEN [ret |-> -1, val |-> val]
    ELSE With(TypeParser(parsers[i], accepted, val),
              LAMBDA r : IF r.ret = 0 THEN r
                         ELSE SyntaxParseFrom(parsers, accepted, r.val, i + 1))

\* css_parse_style_value_with_syntax(syntax, str, val) for a syntax with
\* these parsers: the value returned and *val afterwards
css_parse_style_value_with_syntax(parsers, accepted, val) ==
    SyntaxParseFrom(parsers, accepted, val, 1)

(***************************************************************************)
(* The library driven by a caller                                          *)
(***************************************************************************)
\* the number of calls that change the library's state (css_selector_create,
\* css_selector_duplicate, css_add_style_sheet) a caller makes
MaxCalls == 4

\* calls made so far: every create and duplicate counts in batch_num
Calls == batch_num + Len(added)

\* the selector texts the caller uses
TXT_EMPTY == <<>>
TXT_B == <<CH_b>>
TXT_AB == <<CH_a, CH_b>>
TXT_A_B == <<CH_a, CH_SPACE, CH_b>>
TXT_STAR_B == <<CH_STAR, CH_SPACE, CH_b>>
TXT_B_DOT_C == <<CH_b, CH_DOT, CH_c>>
TXT_A_A_B == <<CH_a, CH_SPACE, CH_a, CH_SPACE, CH_b>>

\* each caller works with one of these sets of texts
Scenarios ==
    {{TXT_EMPTY, TXT_AB},
     {TXT_AB, TXT_A_B},
     {TXT_B, TXT_B_DOT_C},
     {TXT_STAR_B, TXT_A_B},
     {TXT_A_B, TXT_A_A_B}}

PropKeys == 0..(PropCount - 1)

\* the sets of slots a caller's declaration sets: the first, or all
KeySets == {{0}, PropKeys}

\* a declaration from css_style_declaration_create whose slots keys were set
\* to value
StyleOf(keys, value) ==
    [css_style_declaration_create EXCEPT
        !.sheet = [i \in DOMAIN @ |-> IF (i - 1) \in keys THEN value ELSE 0]]

NullSelector == NewSelector(0)

Init ==
    /\ batch_num = 0
    /\ InitRegistry
    /\ InitDecls
    /\ selectors = <<>>
    /\ groups = <<>>
    /\ cache = EmptyDict
    /\ rule_seq = 0
    /\ added = <<>>
    /\ ret = [op |-> "init"]
    /\ texts \in Scenarios
    /\ text = <<>>
    /\ parsed = [ok |-> FALSE, s |-> NullSelector]
    /\ sn_in = NullNode
    /\ sn_names = <<>>

\* s = css_selector_create(t)
SelectorCreate(t) ==
    /\ Calls < MaxCalls
    /\ LET r == css_selector_create(t, batch_num)
       IN  /\ batch_num' = batch_num + 1
           /\ selectors' = IF r.ok THEN Append(selectors, r.s) ELSE selectors
           /\ ret' = [op |-> "create", ok |-> r.ok]
    /\ UNCHANGED <<groups, cache, rule_seq, added, texts, text, parsed, sn_in,
                   sn_names,
                   registry, decls>>

\* s = css_selector_duplicate(selectors[i])
SelectorDuplicate(i) ==
    /\ Calls < MaxCalls
    /\ batch_num' = batch_num + 1
    /\ selectors' = Append(selectors, css_selector_duplicate(selectors[i]))
    /\ ret' = [op |-> "duplicate", src |-> i]
    /\ UNCHANGED <<groups, cache, rule_seq, added, texts, text, parsed, sn_in,
                   sn_names,
                   registry, decls>>

\* css_add_style_sheet(selectors[i], style, NULL) with a style that sets the
\* slots keys to the number of this call
AddStyleSheet(i, keys) ==
    /\ Calls < MaxCalls
    /\ LET style == StyleOf(keys, Len(added) + 1)
       IN  \E r \in {css_add_style_sheet(groups, cache, selectors[i], style,
                                        rule_seq + 1)} :
           /\ groups' = r.groups
           /\ cache' = r.cache
           /\ rule_seq' = IF r.stored THEN rule_seq + 1 ELSE rule_seq
           /\ added' = Append(added,
                  [selector |-> selectors[i], style |-> style,
                   stored |-> r.stored, id |-> rule_seq + 1])
           /\ ret' = [op |-> "add", cached |-> DOMAIN cache, rc |-> r.ret]
    /\ UNCHANGED <<batch_num, selectors, texts, text, parsed, sn_in, sn_names,
                   registry, decls>>

\* css_get_computed_style_with_cache(selectors[i])
ComputedStyle(i) ==
    /\ LET r == css_get_computed_style_with_cache(groups, cache, selectors[i])
       IN  /\ cache' = r.cache
           /\ ret' = [op |-> "computed", sel |-> i, ss |-> r.ss, hit |-> r.hit]
    /\ UNCHANGED <<batch_num, selectors, groups, rule_seq, added, texts, text,
                   parsed, sn_in, sn_names,
                   registry, decls>>

\* css_get_computed_style(selectors[i], &decl_dest)
GetComputedStyle(i) ==
    /\ \E r \in {css_get_computed_style(groups, cache, selectors[i],
                                         decl_dest)} :
           /\ cache' = r.cache
           /\ decl_dest' = r.out_ss
           /\ ret' = [op |-> "get_computed", sel |-> i, ss |-> r.ss,
                      before |-> decl_dest]
    /\ UNCHANGED <<batch_num, selectors, groups, rule_seq, added, texts, text,
                   parsed, sn_in, sn_names, registry, decl_src>>

\* css_query_selector(selectors[i], &list) on an empty list
QuerySelector(i) ==
    /\ ret' = [op |-> "query", sel |-> i,
               res |-> css_query_selector(groups, selectors[i], <<>>)]
    /\ UNCHANGED <<batch_num, selectors, groups, cache, rule_seq, added, texts,
                   text, parsed, sn_in, sn_names,
                   registry, decls>>

Next ==
    \/ \E t \in texts : SelectorCreate(t)
    \/ \E i \in DOMAIN selectors : SelectorDuplicate(i)
    \/ \E i \in DOMAIN selectors : \E keys \in KeySets :
           AddStyleSheet(i, keys)
    \/ \E i \in DOMAIN selectors : ComputedStyle(i)
    \/ \E i \in DOMAIN selectors : GetComputedStyle(i)
    \/ \E i \in DOMAIN selectors : QuerySelector(i)

Spec == Init /\ [][Next]_vars

(***************************************************************************)
(* css_selector_create on every short text                                 *)
(***************************************************************************)
MaxTextLen == 4

\* one character of each class the parser tells apart
ParseAlphabet == {CH_a, CH_b, CH_HASH, CH_DOT, CH_COLON, CH_SPACE, CH_BANG}

ShortTexts ==
    UNION {[1..n -> ParseAlphabet] : n \in 0..MaxTextLen}

RECURSIVE RepeatText(_, _)
RepeatText(unit, n) == IF n = 0 THEN <<>> ELSE unit \o RepeatText(unit, n - 1)

\* texts at the node limit: CSS_SELECTOR_MAX_DEPTH and one more simple
\* selectors `a`, and the latter with the id-less `a#` as its first one
DeepTexts ==
    {RepeatText(<<CH_a, CH_SPACE>>, CSS_SELECTOR_MAX_DEPTH),
     RepeatText(<<CH_a, CH_SPACE>>, CSS_SELECTOR_MAX_DEPTH + 1),
     <<CH_a, CH_HASH, CH_SPACE>> \o
         RepeatText(<<CH_a, CH_SPACE>>, CSS_SELECTOR_MAX_DEPTH)}

ParseTexts == ShortTexts \cup DeepTexts

InitParse ==
    /\ batch_num = 0
    /\ InitRegistry
    /\ InitDecls
    /\ selectors = <<>>
    /\ groups = <<>>
    /\ cache = EmptyDict
    /\ rule_seq = 0
    /\ added = <<>>
    /\ ret = [op |-> "init"]
    /\ texts = {}
    /\ text \in ParseTexts
    /\ parsed = [ok |-> FALSE, s |-> NullSelector]
    /\ sn_in = NullNode
    /\ sn_names = <<>>

\* parsed = css_selector_create(text)
Parse ==
    /\ ret.op = "init"
    /\ parsed' = css_selector_create(text, batch_num)
    /\ batch_num' = batch_num + 1
    /\ ret' = [op |-> "parse"]
    /\ UNCHANGED <<selectors, groups, cache, rule_seq, added, texts, text,
                   sn_in, sn_names,
                   registry, decls>>

NextParse == Parse

SpecParse == InitParse /\ [][NextParse]_vars

(***************************************************************************)
(* css_selector_node_get_name_list on every small node                     *)
(***************************************************************************)
MaxClasses == 2
MaxStatus == 2

TYPE_TV == <<CH_t, CH_v>>
ID_M == <<CH_m>>

\* class names a, b, ... and state names h, i, ...
ClassName(i) == <<CH_a + i - 1>>
StatusName(i) == <<CH_h + i - 1>>

RECURSIVE Pick(_, _, _)
\* the elements of list at the indexes in idx that are >= i, in list order
Pick(list, idx, i) ==
    IF i > Len(list) THEN <<>>
    ELSE (IF i \in idx THEN <<list[i]>> ELSE <<>>) \o Pick(list, idx, i + 1)

\* the nodes the parser can build from the given parts
NodeOf(type, id, classes, status) ==
    css_selector_node_update(
        [NullNode EXCEPT !.type = type, !.id = id, !.classes = classes,
                         !.status = status])

NodeInputs ==
    {NodeOf(type, id,
            Pick([i \in 1..MaxClasses |-> ClassName(i)], cs, 1),
            Pick([i \in 1..MaxStatus |-> StatusName(i)], st, 1)) :
        type \in {<<>>, TYPE_TV}, id \in {<<>>, ID_M},
        cs \in SUBSET (1..MaxClasses), st \in SUBSET (1..MaxStatus)}
    \ {NodeOf(<<>>, <<>>, <<>>, <<>>)}

InitNames ==
    /\ batch_num = 0
    /\ InitRegistry
    /\ InitDecls
    /\ selectors = <<>>
    /\ groups = <<>>
    /\ cache = EmptyDict
    /\ rule_seq = 0
    /\ added = <<>>
    /\ ret = [op |-> "init"]
    /\ texts = {}
    /\ text = <<>>
    /\ parsed = [ok |-> FALSE, s |-> NullSelector]
    /\ sn_in \in NodeInputs
    /\ sn_names = <<>>

\* css_selector_node_get_name_list(sn_in, &sn_names)
ExpandNames ==
    /\ ret.op = "init"
    /\ sn_names' = css_selector_node_get_name_list(sn_in)
    /\ ret' = [op |-> "names"]
    /\ UNCHANGED <<batch_num, selectors, groups, cache, rule_seq, added, texts,
                   text, parsed, sn_in,
                   registry, decls>>

NextNames == ExpandNames

SpecNames == InitNames /\ [][NextNames]_vars

(***************************************************************************)
(* Node matching: sn_in is sn1, and each call passes one sn2               *)
(***************************************************************************)
\* the nodes passed as sn2: the nodes of the name lists, nodes of type `*`
\* and a node of another type
MatchNodes ==
    NodeInputs
    \cup {NodeOf(STAR, <<>>, <<>>, <<>>),
          NodeOf(STAR, ID_M, <<ClassName(1)>>, <<StatusName(1)>>),
          NodeOf(<<CH_t>>, <<>>, <<>>, <<>>)}

InitMatch == InitNames

\* css_selector_node_match(sn_in, sn2)
NodeMatch(sn2) ==
    /\ \E res \in css_selector_node_match(sn_in, sn2) :
           ret' = [op |-> "match", sn2 |-> sn2, res |-> res]
    /\ UNCHANGED <<batch_num, selectors, groups, cache, rule_seq, added, texts,
                   text, parsed, sn_in, sn_names, registry, decls>>

NextMatch == \E sn2 \in MatchNodes : NodeMatch(sn2)

SpecMatch == InitMatch /\ [][NextMatch]_vars

(***************************************************************************)
(* css_selector_create(NULL) and css_selector_append of one node           *)
(***************************************************************************)
InitAppend ==
    /\ batch_num = 0
    /\ InitRegistry
    /\ InitDecls
    /\ selectors = <<>>
    /\ groups = <<>>
    /\ cache = EmptyDict
    /\ rule_seq = 0
    /\ added = <<>>
    /\ ret = [op |-> "init"]
    /\ texts = {}
    /\ text = <<>>
    /\ parsed = [ok |-> FALSE, s |-> NullSelector]
    /\ sn_in \in NodeInputs
    /\ sn_names = <<>>

\* parsed = css_selector_create(NULL)
SelectorCreateNull ==
    /\ ~parsed.ok
    /\ parsed' = [ok |-> TRUE, s |-> css_selector_create_NULL(batch_num)]
    /\ batch_num' = batch_num + 1
    /\ ret' = [op |-> "null"]
    /\ UNCHANGED <<selectors, groups, cache, rule_seq, added, texts, text,
                   sn_in, sn_names,
                   registry, decls>>

\* css_selector_append(parsed, sn_in)
SelectorAppend ==
    /\ parsed.ok
    /\ \E r \in {css_selector_append(parsed.s, sn_in)} :
           /\ parsed' = [ok |-> TRUE, s |-> r.s]
           /\ ret' = [op |-> "append", rc |-> r.ret, before |-> parsed.s]
    /\ UNCHANGED <<batch_num, selectors, groups, cache, rule_seq, added, texts,
                   text, sn_in, sn_names,
                   registry, decls>>

NextAppend == SelectorCreateNull \/ SelectorAppend

SpecAppend == InitAppend /\ [][NextAppend]_vars

(***************************************************************************)
(* The registries and the compilers driven by a caller                     *)
(***************************************************************************)
VD_AUTO_LENGTH_PERCENTAGE ==
    <<"a", "u", "t", "o", " ", "|", " ", "<", "l", "e", "n", "g", "t", "h",
      ">", " ", "|", " ", "<", "p", "e", "r", "c", "e", "n", "t", "a", "g",
      "e", ">">>

VD_AUTO_NONSENSE ==
    <<"a", "u", "t", "o", " ", "|", " ", "<", "n", "o", "n", "s", "e", "n",
      "s", "e", ">">>

VD_JUXT_BAR_AMP ==
    <<"n", "o", "n", "e", " ", "a", "u", "t", "o", " ", "|", " ", "a", "u",
      "t", "o", " ", "&", "&", " ", "n", "o", "n", "e">>

VD_DBAR_AMP ==
    <<"n", "o", "n", "e", " ", "|", "|", " ", "a", "u", "t", "o", " ", "&",
      "&", " ", "n", "o", "n", "e">>

VD_LENGTH ==
    <<"<", "l", "e", "n", "g", "t", "h", ">">>

VD_GT ==
    <<">", " ", "a">>

ValdefTexts ==
    {VD_AUTO_LENGTH_PERCENTAGE, VD_AUTO_NONSENSE, VD_JUXT_BAR_AMP,
     VD_DBAR_AMP, VD_LENGTH, VD_GT}

\* the bytes that follow the terminator of a text in memory
Tails == {<<>>, <<">">>, <<"a", NUL, "]">>}

\* *out_val before css_compile_valdef is called: a zeroed css_valdef_t
ZeroValdef == [sign |-> CSS_VALDEF_SIGN_NONE, ident |-> 0]

KeywordKeys == {CSS_KEYWORD_NONE, CSS_KEYWORD_AUTO}

KeywordNames == {"none", "auto"}

TypeNames == {"length", "percentage"}

PropNames == {"width"}

\* aliases that are keyword names and one that is not
AliasNames == KeywordNames \cup {"size"}

InitLibrary ==
    /\ batch_num = 0
    /\ InitRegistry
    /\ InitDecls
    /\ selectors = <<>>
    /\ groups = <<>>
    /\ cache = EmptyDict
    /\ rule_seq = 0
    /\ added = <<>>
    /\ ret = [op |-> "init"]
    /\ texts = {}
    /\ text = <<>>
    /\ parsed = [ok |-> FALSE, s |-> NullSelector]
    /\ sn_in = NullNode
    /\ sn_names = <<>>

Selectors == <<batch_num, selectors, groups, cache, rule_seq, added, texts,
               text, parsed, sn_in, sn_names>>

\* css_register_keyword(key, name)
RegisterKeyword(key, name) ==
    \E found \in KeywordFinds(keywords, name) :
        \E r \in {css_register_keyword(keywords, keyword_names, key, name, found)} :
            /\ keywords' = r.keywords
            /\ keyword_names' = r.keyword_names
            /\ ret' = [op |-> "register_keyword", key |-> key, name |-> name,
                       rc |-> r.ret, before |-> keyword_names,
                       keywords_before |-> keywords]
            /\ UNCHANGED <<Selectors, types, properties, type_alias, decls>>

\* css_get_keyword_key(name)
GetKeywordKey(name) ==
    \E found \in KeywordFinds(keywords, name) :
        /\ ret' = [op |-> "get_keyword_key", name |-> name,
                   key |-> css_get_keyword_key(keywords, name, found)]
        /\ UNCHANGED <<Selectors, registry, decls>>

\* css_get_keyword_name(key)
GetKeywordName(key) ==
    /\ ret' = [op |-> "get_keyword_name", key |-> key,
               name |-> css_get_keyword_name(keyword_names, key)]
    /\ UNCHANGED <<Selectors, registry, decls>>

\* css_register_value_type(type_name, parse)
RegisterValueType(type_name) ==
    \E r \in {css_register_value_type(types, type_name)} :
        /\ types' = r.types
        /\ ret' = [op |-> "register_value_type", name |-> type_name, ok |-> r.ok]
        /\ UNCHANGED <<Selectors, keywords, keyword_names, properties, type_alias, decls>>

\* css_register_value_type_alias(type_name, alias)
RegisterValueTypeAlias(type_name, alias) ==
    \E found \in KeywordFinds(keywords, alias) :
        \E r \in {css_register_value_type_alias(keywords, type_alias, type_name,
                                               alias, found)} :
            /\ type_alias' = r.type_alias
            /\ ret' = [op |-> "register_value_type_alias", type |-> type_name,
                       alias |-> alias, rc |-> r.ret, before |-> type_alias]
            /\ UNCHANGED <<Selectors, keywords, keyword_names, types,
                           properties, decls>>

\* css_resolve_value_type(alias)
ResolveValueType(alias) ==
    /\ ret' = [op |-> "resolve_value_type", alias |-> alias,
               type |-> css_resolve_value_type(type_alias, alias)]
    /\ UNCHANGED <<Selectors, registry, decls>>

\* css_compile_valdef(str, &out_val)
CompileValdef(str, tail) ==
    \E r \in {css_compile_valdef(str, tail, ZeroValdef)} :
        /\ ret' = [op |-> "compile_valdef", str |-> str, rc |-> r.ret,
                   out_val |-> r.out_val, p |-> r.p]
        /\ UNCHANGED <<Selectors, registry, decls>>

\* the types whose parsers a value text is tried on
ParsedTypes ==
    {<<"l", "e", "n", "g", "t", "h">>,
     <<"p", "e", "r", "c", "e", "n", "t", "a", "g", "e">>}

\* css_compile_syntax(syntax_str, &syntax) followed by
\* css_parse_style_value_with_syntax(&syntax, str, &val) on a text the
\* parsers of the types in accepted accept
ParseStyleValueWithSyntax(syntax_str, n, accepted) ==
    \E c \in {css_compile_syntax(syntax_str, n)} :
        \E r \in {css_parse_style_value_with_syntax(c.parsers, accepted,
                                                     NoValue)} :
            /\ ret' = [op |-> "parse_with_syntax", str |-> syntax_str,
                       parsers |-> c.parsers, accepted |-> accepted,
                       rc |-> r.ret, val |-> r.val]
            /\ UNCHANGED <<Selectors, registry, decls>>

\* css_compile_syntax(str, &out)
CompileSyntax(str, n) ==
    \E r \in {css_compile_syntax(str, n)} :
        /\ ret' = [op |-> "compile_syntax", str |-> str, rc |-> r.ret,
                   parsers |-> r.parsers]
        /\ UNCHANGED <<Selectors, registry, decls>>

\* css_register_property_with_key(key, name, syntax, initial), as
\* css_init_properties calls it
RegisterPropertyWithKey(key, name, syntax) ==
    \E r \in {css_register_property_with_key(properties, key, name, syntax)} :
        /\ properties' = r.properties
        /\ ret' = [op |-> "register_property_with_key", key |-> key,
                   name |-> name, syntax |-> syntax, rc |-> r.ret]
        /\ UNCHANGED <<Selectors, keywords, keyword_names, types, type_alias, decls>>

\* css_register_property(name, syntax, initial)
RegisterProperty(name, syntax) ==
    \E r \in {css_register_property(properties, name, syntax)} :
        /\ properties' = r.properties
        /\ ret' = [op |-> "register_property", name |-> name,
                   syntax |-> syntax, rc |-> r.ret]
        /\ UNCHANGED <<Selectors, keywords, keyword_names, types, type_alias, decls>>

\* css_get_property_by_key(key)
GetPropertyByKey(key) ==
    \E r \in css_get_property_by_key(properties, key) :
        /\ ret' = [op |-> "get_property_by_key", key |-> key, prop |-> r]
        /\ UNCHANGED <<Selectors, registry, decls>>

\* css_get_property(name)
GetProperty(name) ==
    \E r \in css_get_property(properties, name) :
        /\ ret' = [op |-> "get_property", name |-> name, prop |-> r]
        /\ UNCHANGED <<Selectors, registry, decls>>

NextLibrary ==
    \/ \E key \in KeywordKeys : \E name \in KeywordNames :
           RegisterKeyword(key, name)
    \/ \E name \in KeywordNames : GetKeywordKey(name)
    \/ \E key \in KeywordKeys : GetKeywordName(key)
    \/ \E type_name \in TypeNames : RegisterValueType(type_name)
    \/ \E type_name \in TypeNames : \E alias \in AliasNames :
           RegisterValueTypeAlias(type_name, alias)
    \/ \E alias \in AliasNames : ResolveValueType(alias)
    \/ \E str \in ValdefTexts : \E tail \in Tails : CompileValdef(str, tail)
    \/ \E str \in ValdefTexts : \E n \in UninitNameLen : CompileSyntax(str, n)
    \/ \E str \in ValdefTexts : \E n \in UninitNameLen :
           \E accepted \in SUBSET ParsedTypes :
               ParseStyleValueWithSyntax(str, n, accepted)
    \/ \E key \in PropKeys : \E name \in PropNames :
           RegisterPropertyWithKey(key, name, VD_LENGTH)
    \/ \E name \in PropNames : \E syntax \in ValdefTexts :
           RegisterProperty(name, syntax)
    \/ \E key \in PropKeys : GetPropertyByKey(key)
    \/ \E name \in PropNames : GetProperty(name)

SpecLibrary == InitLibrary /\ [][NextLibrary]_vars

(***************************************************************************)
(* Two declarations filled, merged and replaced by a caller                *)
(***************************************************************************)
\* the greatest property key of a properties list: two beyond the keys
\* css_style_declaration_create makes room for
MaxPropKey == PropCount + 2

\* the value the properties merged into decl_dest carry, and the one those
\* merged into decl_src carry
DestValue == PropCount - 1

SrcValue == PropCount

\* the properties lists of one property: a valid style for each of the keys,
\* or a style that is not valid
PropLists(keys, value) ==
    {<<[key |-> k, style |-> value]>> : k \in keys}
    \cup {<<[key |-> 0, style |-> 0]>>}

InitDeclarations ==
    /\ batch_num = 0
    /\ InitRegistry
    /\ InitDecls
    /\ selectors = <<>>
    /\ groups = <<>>
    /\ cache = EmptyDict
    /\ rule_seq = 0
    /\ added = <<>>
    /\ ret = [op |-> "init"]
    /\ texts = {}
    /\ text = <<>>
    /\ parsed = [ok |-> FALSE, s |-> NullSelector]
    /\ sn_in = NullNode
    /\ sn_names = <<>>

\* css_style_declaration_merge_properties(decl_dest, list)
DestMergeProperties(list) ==
    /\ decl_dest' = css_style_declaration_merge_properties(decl_dest, list)
    /\ ret' = [op |-> "merge_properties", ss |-> decl_dest, list |-> list]
    /\ UNCHANGED <<Selectors, registry, decl_src>>

\* css_style_declaration_merge_properties(decl_src, list)
SrcMergeProperties(list) ==
    /\ decl_src' = css_style_declaration_merge_properties(decl_src, list)
    /\ ret' = [op |-> "src_merge_properties", ss |-> decl_src, list |-> list]
    /\ UNCHANGED <<Selectors, registry, decl_dest>>

\* css_style_declaration_merge(decl_dest, decl_src)
DeclarationMerge ==
    /\ decl_dest' = css_style_declaration_merge(decl_dest, decl_src)
    /\ ret' = [op |-> "merge", ss |-> decl_dest, src |-> decl_src]
    /\ UNCHANGED <<Selectors, registry, decl_src>>

\* css_style_declaration_replace(decl_dest, decl_src)
DeclarationReplace ==
    \E r \in {css_style_declaration_replace(decl_dest, decl_src)} :
        /\ decl_dest' = r.ss
        /\ ret' = [op |-> "replace", ss |-> decl_dest, src |-> decl_src,
                   count |-> r.count]
        /\ UNCHANGED <<Selectors, registry, decl_src>>

NextDeclarations ==
    \/ \E list \in PropLists(PropKeys, DestValue) : DestMergeProperties(list)
    \/ \E list \in PropLists(0..MaxPropKey, SrcValue) : SrcMergeProperties(list)
    \/ DeclarationMerge
    \/ DeclarationReplace

SpecDeclarations == InitDeclarations /\ [][NextDeclarations]_vars

(***************************************************************************)
(* Properties                                                              *)
(***************************************************************************)
\* r1 has the greater (rank, batch_num)
Greater(r1, r2) ==
    \/ r1.rank > r2.rank
    \/ r1.rank = r2.rank /\ r1.batch_num > r2.batch_num

\* rule r has a property for key k; its value
SetsKey(r, k) == \E i \in 1..Len(r.list) : r.list[i].key = k
ValueOfKey(r, k) ==
    r.list[CHOOSE i \in 1..Len(r.list) : r.list[i].key = k].style

\* the rules a query for s collects
MatchingRules(s) == SeqToSet(css_query_selector(groups, s, <<>>).list)

\* C1: the declaration computed_style(s) returns has, in each valid slot k,
\* the value of a matching rule with the greatest (rank, batch_num) among the
\* matching rules that set k, and a slot is invalid iff no matching rule sets
\* it
C1_ComputedIsCascade ==
    ret.op = "computed" =>
        \A k \in 0..(ret.ss.length - 1) :
            LET M == {r \in MatchingRules(selectors[ret.sel]) : SetsKey(r, k)}
            IN  IF M = {} THEN ret.ss.sheet[k + 1] = 0
                ELSE \E r \in M :
                        /\ \A q \in M : ~Greater(q, r)
                        /\ ret.ss.sheet[k + 1] = ValueOfKey(r, k)

\* C2: whatever selectors were queried before, the declaration
\* computed_style(s) returns equals the one a query-and-merge for s without
\* the cache produces
C2_CachedEqualsFresh ==
    ret.op = "computed" =>
        ret.ss = ComputeStyle(groups, selectors[ret.sel])

\* C3: right after every css_add_style_sheet call, whatever the selector,
\* the computed-style cache holds no entry
C3_CacheEmptyAfterAdd ==
    ret.op = "add" => DOMAIN cache = {}

\* an add call with a selector of length 0 (no rule stored) found the cache
\* holding declarations and left it empty
C3_Witness ==
    /\ ret.op = "add"
    /\ ret.cached # {}
    /\ added[Len(added)].selector.length = 0
    /\ ~added[Len(added)].stored
    /\ DOMAIN cache = {}

\* the stored rule of the i-th css_add_style_sheet call is in the list
InList(i, list) == \E n \in 1..Len(list) : list[n].id = added[i].id

\* C4: of two add calls whose selectors have equal rank, that both match s
\* and set the same property k, the later one wins: the value computed for k
\* is never the one the earlier call gave (a call's value is its number)
C4_LaterAddWins ==
    ret.op = "computed" =>
        \A i, j \in DOMAIN added :
            /\ i < j
            /\ added[i].stored /\ added[j].stored
            /\ added[i].selector.rank = added[j].selector.rank
            /\ LET list == css_query_selector(groups, selectors[ret.sel],
                                              <<>>).list
               IN  InList(i, list) /\ InList(j, list)
            => \A k \in PropKeys :
                   added[i].style.sheet[k + 1] # 0 /\ added[j].style.sheet[k + 1] # 0
                   => ret.ss.sheet[k + 1] # added[i].style.sheet[k + 1]

RECURSIVE WithKey(_, _, _)
\* the rules of list whose (rank, batch_num) is (rank, batch), in list order
WithKey(list, rank, batch) ==
    IF list = <<>> THEN <<>>
    ELSE (IF Head(list).rank = rank /\ Head(list).batch_num = batch
          THEN <<Head(list)>> ELSE <<>>)
         \o WithKey(Tail(list), rank, batch)

\* C5: the rule list a query builds from an empty list is sorted by (rank
\* descending, batch_num descending), and rules with equal (rank, batch_num)
\* are in the order the query collected them
C5_QueryListSorted ==
    ret.op = "query" =>
        LET list == ret.res.list
        IN  /\ \A i, j \in 1..Len(list) : i < j => ~Greater(list[j], list[i])
            /\ Len(list) = Len(ret.res.visited)
            /\ \A n \in 1..Len(list) :
                   WithKey(list, list[n].rank, list[n].batch_num)
                   = WithKey(ret.res.visited, list[n].rank, list[n].batch_num)

\* a query collected a rule of lower priority before one of higher priority
\* and the list holds them in priority order
C5_Witness ==
    /\ ret.op = "query"
    /\ Len(ret.res.list) >= 2
    /\ ret.res.list # ret.res.visited
    /\ \E i, j \in 1..Len(ret.res.list) :
           i < j /\ Greater(ret.res.list[i], ret.res.list[j])

\* rule node r names query node q: fullname(r) is one of the expansion names
\* of q, or `*`
NamesNode(r, q) ==
    r.fullname \in SeqToSet(css_selector_node_get_name_list(q)) \cup {STAR}

Front(q) == SubSeq(q, 1, Len(q) - 1)
Last(q) == q[Len(q)]

RECURSIVE Embeds(_, _)
\* the nodes rs map, in order, to distinct nodes of qs which they name
Embeds(rs, qs) ==
    IF rs = <<>> THEN TRUE
    ELSE IF qs = <<>> THEN FALSE
    ELSE \/ NamesNode(Last(rs), Last(qs)) /\ Embeds(Front(rs), Front(qs))
         \/ Embeds(rs, Front(qs))

DescendantMatch(rs, qs) ==
    /\ rs # <<>> /\ qs # <<>>
    /\ NamesNode(Last(rs), Last(qs))
    /\ Embeds(Front(rs), Front(qs))

\* C6: a query for q1 .. qm collects the stored rule r1 .. rn iff rn names
\* qm and r1 .. r(n-1) map, in order, to distinct nodes among q1 .. q(m-1)
\* which they name
C6_DescendantMatching ==
    ret.op = "query" =>
        \A i \in DOMAIN added :
            added[i].stored =>
                (InList(i, ret.res.list)
                 <=> DescendantMatch(added[i].selector.nodes,
                                     selectors[ret.sel].nodes))

\* the nodes m with m.type in {absent, n.type}, m.id in {absent, n.id},
\* m.classes a subset of n.classes, m.status a subset of n.status, but the
\* empty one
SubNodes(n) ==
    {NodeOf(type, id, Pick(n.classes, cs, 1), Pick(n.status, st, 1)) :
        type \in {<<>>, n.type}, id \in {<<>>, n.id},
        cs \in SUBSET (1..Len(n.classes)), st \in SUBSET (1..Len(n.status))}
    \ {NodeOf(<<>>, <<>>, <<>>, <<>>)}

\* {type=tv, id=m, classes={a,b}, status={h}} and names it must yield
ExampleNode ==
    NodeOf(TYPE_TV, ID_M, <<ClassName(1), ClassName(2)>>, <<StatusName(1)>>)

ExampleNames ==
    {NodeOf(TYPE_TV, <<>>, <<>>, <<>>).fullname,
     NodeOf(TYPE_TV, ID_M, <<>>, <<>>).fullname,
     NodeOf(TYPE_TV, ID_M, <<ClassName(1)>>, <<>>).fullname,
     NodeOf(TYPE_TV, ID_M, <<ClassName(2)>>, <<>>).fullname,
     NodeOf(TYPE_TV, ID_M, <<ClassName(1), ClassName(2)>>, <<>>).fullname,
     NodeOf(TYPE_TV, ID_M, <<ClassName(1)>>, <<StatusName(1)>>).fullname,
     NodeOf(TYPE_TV, ID_M, <<ClassName(1), ClassName(2)>>,
            <<StatusName(1)>>).fullname}

\* C7: the set of names css_selector_node_get_name_list(n) returns is exactly
\* the set of fullnames of the non-empty nodes made of parts of n; for
\* tv#m.a.b:h it holds tv, tv#m, tv#m.a, tv#m.b, tv#m.a.b, tv#m.a:h and
\* tv#m.a.b:h
C7_NameListIsSubNodeNames ==
    ret.op = "names" =>
        /\ SeqToSet(sn_names) = {m.fullname : m \in SubNodes(sn_in)}
        /\ sn_in = ExampleNode => ExampleNames \subseteq SeqToSet(sn_names)

\* the names of tv#m.a.b:h were expanded
C7_Witness ==
    /\ ret.op = "names"
    /\ sn_in = ExampleNode
    /\ Len(sn_names) >= 7

\* C8: whenever a query expands the candidate names of a node, the target or
\* an ancestor, `*` is among the candidates
C8_StarAlwaysCandidate ==
    ret.op = "query" =>
        \A e \in ret.res.expanded : STAR \in SeqToSet(e[2])

\* 100*[id present] + 10*|classes| + 10*|states| + 1*[type present]
RankOf(n) ==
    100 * (IF n.id # <<>> THEN 1 ELSE 0)
    + 10 * Len(n.classes) + 10 * Len(n.status)
    + (IF n.type # <<>> THEN 1 ELSE 0)

\* C9: every node of a parsed or duplicated selector, and every node copy a
\* link group holds, has rank = 100*[id] + 10*|classes| + 10*|states| +
\* 1*[type]
C9_NodeRankFormula ==
    /\ \A i \in DOMAIN selectors : \A n \in DOMAIN selectors[i].nodes :
           selectors[i].nodes[n].rank = RankOf(selectors[i].nodes[n])
    /\ \A d \in DOMAIN groups : \A name \in DOMAIN groups[d] :
           groups[d][name].snode.rank = RankOf(groups[d][name].snode)

RECURSIVE SumRanks(_)
SumRanks(nodes) ==
    IF nodes = <<>> THEN 0 ELSE Head(nodes).rank + SumRanks(Tail(nodes))

\* C10: the rank of every selector css_selector_create returns is the sum of
\* the ranks of the nodes it holds
C10_SelectorRankIsNodeSum ==
    ret.op = "parse" /\ parsed.ok =>
        parsed.s.rank = SumRanks(parsed.s.nodes)

RECURSIVE SortedSeq(_)
\* the strings of S in strcmp order
SortedSeq(S) ==
    IF S = {} THEN <<>>
    ELSE LET m == CHOOSE x \in S : \A y \in S \ {x} : StrLess(x, y)
         IN  <<m>> \o SortedSeq(S \ {m})

RECURSIVE Prefixed(_, _)
\* prefix and name, for each name of list
Prefixed(prefix, list) ==
    IF list = <<>> THEN <<>>
    ELSE <<prefix>> \o Head(list) \o Prefixed(prefix, Tail(list))

\* type, `#`id, `.`class per class in sorted order, `:`state per state in
\* sorted order, absent parts omitted
CanonicalName(type, id, classes, status) ==
    type \o (IF id = <<>> THEN <<>> ELSE <<CH_HASH>> \o id)
    \o Prefixed(CH_DOT, SortedSeq(classes))
    \o Prefixed(CH_COLON, SortedSeq(status))

\* what a node holds, whatever the order of its parts
Content(n) == <<n.type, n.id, SeqToSet(n.classes), SeqToSet(n.status)>>

\* the nodes of the selectors css_selector_create builds from the short texts
ParsedNodes ==
    UNION {LET r == css_selector_create(t, 0)
           IN  IF r.ok THEN SeqToSet(r.s.nodes) ELSE {} : t \in ParseTexts}

\* C11: the fullname of every node of a parsed selector is type, `#`id,
\* `.`class for each class in sorted order, `:`state for each state in sorted
\* order; a node of any other parsed selector has the same fullname iff it
\* has the same type, id, classes and states
C11_FullnameCanonical ==
    ret.op = "parse" /\ parsed.ok =>
        \A i \in DOMAIN parsed.s.nodes :
            LET n == parsed.s.nodes[i]
            IN  /\ n.fullname = CanonicalName(n.type, n.id, SeqToSet(n.classes),
                                              SeqToSet(n.status))
                /\ Len(n.classes) = Cardinality(SeqToSet(n.classes))
                /\ Len(n.status) = Cardinality(SeqToSet(n.status))
                /\ \A m \in ParsedNodes :
                       (Content(m) = Content(n)) <=> (m.fullname = n.fullname)

\* `.b.a` was parsed: the classes appear in the text in the other order than
\* in the fullname `.a.b`
C11_Witness ==
    /\ ret.op = "parse" /\ parsed.ok
    /\ text = <<CH_DOT, CH_b, CH_DOT, CH_a>>
    /\ parsed.s.length = 1
    /\ parsed.s.nodes[1].fullname = <<CH_DOT, CH_a, CH_DOT, CH_b>>

RECURSIVE JoinFullnames(_)
\* the fullnames of nodes joined with single spaces
JoinFullnames(nodes) ==
    IF nodes = <<>> THEN <<>>
    ELSE IF Len(nodes) = 1 THEN Head(nodes).fullname
    ELSE Head(nodes).fullname \o <<CH_SPACE>> \o JoinFullnames(Tail(nodes))

\* the selectors have the same length and the same type, id, classes, states
\* and fullname node by node
SameNodes(s1, s2) ==
    /\ s1.length = s2.length
    /\ Len(s1.nodes) = Len(s2.nodes)
    /\ \A i \in DOMAIN s1.nodes :
           /\ s1.nodes[i].type = s2.nodes[i].type
           /\ s1.nodes[i].id = s2.nodes[i].id
           /\ s1.nodes[i].classes = s2.nodes[i].classes
           /\ s1.nodes[i].status = s2.nodes[i].status
           /\ s1.nodes[i].fullname = s2.nodes[i].fullname

\* C12: for every text css_selector_create accepts, the fullnames of the
\* resulting nodes joined with single spaces parse to a selector with the
\* same length, the same nodes, the same rank and the same hash
C12_RoundTrip ==
    ret.op = "parse" /\ parsed.ok =>
        LET again == css_selector_create(JoinFullnames(parsed.s.nodes), 0)
        IN  /\ again.ok
            /\ SameNodes(again.s, parsed.s)
            /\ again.s.rank = parsed.s.rank
            /\ again.s.hash = parsed.s.hash

RECURSIVE ConcatFullnames(_)
ConcatFullnames(nodes) ==
    IF nodes = <<>> THEN <<>>
    ELSE Head(nodes).fullname \o ConcatFullnames(Tail(nodes))

RECURSIVE Djb(_, _)
\* h = h*33 + byte modulo 2^32 over the bytes of str, h as <<high, low>>
\* halves of 16 bits
Djb(h, str) ==
    IF str = <<>> THEN h
    ELSE LET low == 33 * h[2] + Head(str)
             high == 33 * h[1] + low \div 65536
         IN  Djb(<<high % 65536, low % 65536>>, Tail(str))

\* C13: the hash of a selector built by css_selector_create(NULL) and
\* css_selector_append is the DJB rolling hash (start 5381, h = h*33 + byte,
\* modulo 2^32) of the concatenation of its node fullnames in order
C13_HashIsDjbOfFullnames ==
    ret.op \in {"null", "append"} =>
        parsed.s.hash = Djb(<<0, 5381>>, ConcatFullnames(parsed.s.nodes))

\* the selector the last css_selector_create or css_selector_duplicate made
LastSelector == selectors[Len(selectors)]

\* C14 as stated: every selector made later, by css_selector_create or by
\* css_selector_duplicate, has a strictly greater batch_num than every
\* selector made earlier, so no two share one
C14_BatchNumStrictlyIncreasing ==
    \A i, j \in DOMAIN selectors :
        i < j => selectors[i].batch_num < selectors[j].batch_num

\* C14: the selector a css_selector_create call returns has a batch_num
\* strictly greater than that of every selector made before it, while the
\* selector css_selector_duplicate returns has the batch_num of its source
C14_BatchNumByCreation ==
    /\ ret.op = "create" /\ ret.ok =>
           \A i \in 1..(Len(selectors) - 1) :
               selectors[i].batch_num < LastSelector.batch_num
    /\ ret.op = "duplicate" =>
           \E i \in 1..(Len(selectors) - 1) :
               /\ selectors[i].batch_num = LastSelector.batch_num
               /\ selectors[i].hash = LastSelector.hash
               /\ selectors[i].batch_num < batch_num

\* a duplicate was made of a selector older than the newest one: its
\* batch_num is below that of a selector made before it
C14_Witness ==
    /\ ret.op = "duplicate"
    /\ \E i \in 1..(Len(selectors) - 1) :
           selectors[i].batch_num > LastSelector.batch_num

\* the number of whitespace-separated simple selectors of a text
RECURSIVE CountSimple(_, _)
CountSimple(t, i) ==
    IF i > Len(t) THEN 0
    ELSE (IF ~IsSpaceChar(t[i]) /\ (i = 1 \/ IsSpaceChar(t[i - 1]))
          THEN 1 ELSE 0) + CountSimple(t, i + 1)

\* C15: css_selector_create returns no selector for a text with more than
\* CSS_SELECTOR_MAX_DEPTH whitespace-separated simple selectors, and a
\* selector it returns has at most CSS_SELECTOR_MAX_DEPTH nodes
C15_CreateBoundedDepth ==
    ret.op = "parse" =>
        /\ CountSimple(text, 1) > CSS_SELECTOR_MAX_DEPTH => ~parsed.ok
        /\ parsed.ok => parsed.s.length <= CSS_SELECTOR_MAX_DEPTH

\* the characters a selector text may contain
SelectorChars ==
    (CH_a..CH_z) \cup (CH_UA..CH_UZ) \cup (CH_0..CH_9)
    \cup {CH_MINUS, CH_UNDERSCORE, CH_STAR, CH_DOT, CH_HASH, CH_COLON}
    \cup {CH_SPACE, CH_TAB, CH_LF, CH_CR}

\* the positions of text holding a character outside SelectorChars
BadPositions == {i \in DOMAIN text : text[i] \notin SelectorChars}

FirstBad == CHOOSE i \in BadPositions : \A j \in BadPositions : i <= j

\* C16: css_selector_create returns NULL for a text that holds, anywhere, a
\* character that is not a letter, digit, `-`, `_`, `*`, `.`, `#`, `:` or
\* whitespace; the loop is still running when it reaches the first such
\* character and is left at it
C16_UnknownCharIsNull ==
    ret.op = "parse" /\ BadPositions # {} =>
        /\ ~parsed.ok
        /\ ~ParseLoop(ParseStart(batch_num), text, 1, FirstBad - 1).null
        /\ ParseLoop(ParseStart(batch_num), text, 1, FirstBad).null

\* `a` followed later by `!` was parsed: the text before the `!` alone is a
\* valid selector
C16_Witness ==
    /\ ret.op = "parse"
    /\ Len(text) > 2 /\ text[1] = CH_a /\ text[2] = CH_SPACE
    /\ BadPositions # {} /\ FirstBad > 2
    /\ ~parsed.ok
    /\ css_selector_create(SubSeq(text, 1, FirstBad - 1), 0).ok

(***************************************************************************)
(* Properties of the registries and of the compilers                       *)
(***************************************************************************)
\* the names and keys of the keywords css_register_keyword accepted: the
\* entries of the second dict, which is written last
RegisteredNames(names) == {names[k].name : k \in DOMAIN names}

\* the characters that end an identifier of a value definition
Delimiters == WHITE_SPACE \cup {"|", "&", "<", ">", "[", "]"}

RECURSIVE Words(_, _, _, _)
\* the identifiers of text from character i on that stand inside angle
\* brackets (angle = TRUE) or outside them, as names; word is the one begun
Words(vd, i, word, angle) ==
    IF i > Len(vd) THEN (IF word = "" THEN {} ELSE {<<word, FALSE>>})
    ELSE IF vd[i] \in Delimiters
    THEN (IF word = "" THEN {} ELSE {<<word, angle /\ vd[i] = ">">>})
         \cup Words(vd, i + 1, "", vd[i] = "<")
    ELSE Words(vd, i + 1, word \o vd[i], angle)

Identifiers(vd) == {w[1] : w \in {x \in Words(vd, 1, "", FALSE) : ~x[2]}}

TypeReferences(vd) == {w[1] : w \in {x \in Words(vd, 1, "", FALSE) : x[2]}}

\* C17: compiling a value definition returns an error when it holds an
\* identifier that is not a registered keyword or a `<type>` that is not a
\* registered type; with `auto`, `length` and `percentage` registered,
\* `auto | <length> | <percentage>` compiles and `auto | <nonsense>` fails
C17_CompileRejectsUnknownNames ==
    ret.op \in {"compile_valdef", "compile_syntax"} =>
        /\ (\/ Identifiers(ret.str) \ RegisteredNames(keyword_names) # {}
            \/ TypeReferences(ret.str) \ DOMAIN types # {}) => ret.rc # 0
        /\ "auto" \in RegisteredNames(keyword_names)
              /\ {"length", "percentage"} \subseteq DOMAIN types =>
               /\ ret.str = VD_AUTO_LENGTH_PERCENTAGE => ret.rc = 0
               /\ ret.str = VD_AUTO_NONSENSE => ret.rc # 0

\* the key of a registered keyword name
KeyOf(name) == CHOOSE k \in DOMAIN keyword_names : keyword_names[k].name = name

Keyword(name) == [sign |-> CSS_VALDEF_SIGN_NONE, ident |-> KeyOf(name)]

Group(sign, children) == [sign |-> sign, children |-> children]

\* C18: with `none` and `auto` registered, `none auto | auto && none`
\* compiles to single_bar(juxtaposition(none, auto),
\* double_ampersand(auto, none)) and `none || auto && none` to
\* double_bar(none, double_ampersand(auto, none)): juxtaposition groups
\* tighter than `&&`, `&&` tighter than `||`, `||` tighter than `|`
C18_CombinatorPrecedence ==
    ret.op = "compile_valdef" /\ {"none", "auto"} \subseteq RegisteredNames(keyword_names) =>
        /\ ret.str = VD_JUXT_BAR_AMP =>
               /\ ret.rc = 0
               /\ ret.out_val =
                      Group(CSS_VALDEF_SIGN_SINGLE_BAR,
                            <<Group(CSS_VALDEF_SIGN_JUXTAPOSITION,
                                    <<Keyword("none"), Keyword("auto")>>),
                              Group(CSS_VALDEF_SIGN_DOUBLE_AMPERSAND,
                                    <<Keyword("auto"), Keyword("none")>>)>>)
        /\ ret.str = VD_DBAR_AMP =>
               /\ ret.rc = 0
               /\ ret.out_val =
                      Group(CSS_VALDEF_SIGN_DOUBLE_BAR,
                            <<Keyword("none"),
                              Group(CSS_VALDEF_SIGN_DOUBLE_AMPERSAND,
                                    <<Keyword("auto"), Keyword("none")>>)>>)

\* C19: css_register_keyword(key, name) fails when name or key is already
\* registered and succeeds otherwise; a registered name is looked up to its
\* key and a registered key to its name, and a lookup of a name or key that
\* is not registered reports absent
C19_KeywordRegistry ==
    /\ ret.op = "register_keyword" =>
           /\ (ret.rc # 0) <=> (\/ ret.name \in RegisteredNames(ret.before)
                                \/ ret.key \in DOMAIN ret.before)
           /\ ret.rc = 0 =>
                  keyword_names = DictAdd(ret.before, ret.key,
                                          keyword_create(ret.key, ret.name))
           /\ ret.rc # 0 => keyword_names = ret.before
    /\ ret.op = "get_keyword_key" =>
           IF ret.name \in RegisteredNames(keyword_names)
           THEN ret.key = KeyOf(ret.name)
           ELSE ret.key = -1
    /\ ret.op = "get_keyword_name" =>
           IF ret.key \in DOMAIN keyword_names
           THEN ret.name = keyword_names[ret.key].name
           ELSE ret.name = NullName

\* C20: css_register_property(name, syntax, initial) with a syntax that
\* compiles returns a key that is not negative, after which
\* css_get_property_by_key(key) and css_get_property(name) return the
\* definition of that name and key
C20_RegisterPropertyReturnsKey ==
    ret.op = "register_property" /\ ret.syntax = VD_LENGTH =>
        /\ ret.rc >= 0
        /\ css_get_property_by_key(properties, ret.rc) =
               {[key |-> ret.rc, name |-> ret.name]}
        /\ css_get_property(properties, ret.name) =
               {[key |-> ret.rc, name |-> ret.name]}

\* the keys for which css_get_property_by_key returns a property definition
\* of that key
DefinedKeys ==
    {k \in 0..(Len(properties) + css_get_property_count) :
        \A r \in css_get_property_by_key(properties, k) : r.key = k}

\* C21: after a property registration the keys that have a property
\* definition are exactly 0 .. css_get_property_count - 1
C21_KeysAreDense ==
    ret.op \in {"register_property", "register_property_with_key"} =>
        DefinedKeys = 0..(css_get_property_count - 1)

(***************************************************************************)
(* Properties of the declarations                                          *)
(***************************************************************************)
\* slot key of declaration ss: 0 when the key is not below its length
Slot(ss, key) == IF key < ss.length THEN ss.sheet[key + 1] ELSE 0

\* C22: css_style_declaration_merge copies exactly the slots valid in src
\* and not valid in dest and keeps every valid slot of dest;
\* css_style_declaration_replace overwrites exactly the slots valid in src;
\* after either the length of dest is the greater of the two lengths, slots
\* added by growth are valid only when copied, src is unchanged, and a
\* second merge changes nothing
C22_MergeAndReplace ==
    /\ ret.op \in {"merge", "replace"} =>
           /\ decl_dest.length = (IF ret.src.length > ret.ss.length
                                  THEN ret.src.length ELSE ret.ss.length)
           /\ decl_src = ret.src
    /\ ret.op = "merge" =>
           /\ \A k \in 0..(decl_dest.length - 1) :
                  Slot(decl_dest, k) = (IF Slot(ret.ss, k) # 0
                                        THEN Slot(ret.ss, k)
                                        ELSE Slot(ret.src, k))
           /\ css_style_declaration_merge(decl_dest, decl_src) = decl_dest
    /\ ret.op = "replace" =>
           /\ \A k \in 0..(decl_dest.length - 1) :
                  Slot(decl_dest, k) = (IF Slot(ret.src, k) # 0
                                        THEN Slot(ret.src, k)
                                        ELSE Slot(ret.ss, k))
           /\ ret.count = Cardinality({k \in 0..(ret.src.length - 1) :
                                          Slot(ret.src, k) # 0})

\* a merge from a longer src into a dest that holds a slot src holds too, a
\* slot src does not hold, and lacks a slot src holds
C22_Witness ==
    /\ ret.op = "merge"
    /\ ret.src.length > ret.ss.length
    /\ \E k \in 0..(ret.ss.length - 1) :
           /\ Slot(ret.ss, k) # 0
           /\ Slot(ret.src, k) # 0
           /\ Slot(ret.src, k) # Slot(ret.ss, k)
    /\ \E k \in 0..(ret.ss.length - 1) :
           Slot(ret.ss, k) = 0 /\ Slot(ret.src, k) # 0
    /\ \E k \in ret.ss.length..(ret.src.length - 1) : Slot(ret.src, k) # 0
    /\ \E k \in ret.ss.length..(ret.src.length - 1) : Slot(ret.src, k) = 0

\* the declaration the last css_style_declaration_merge_properties call
\* worked on
Merged == IF ret.op = "merge_properties" THEN decl_dest ELSE decl_src

\* C23: after css_style_declaration_merge_properties every valid slot of the
\* declaration is at an index below its length, and the length is at least
\* key + 1 for every key of the list that has a valid style
C23_ValidSlotsBelowLength ==
    ret.op \in {"merge_properties", "src_merge_properties"} =>
        /\ \A i \in DOMAIN Merged.sheet :
               Merged.sheet[i] # 0 => i <= Merged.length
        /\ \A j \in DOMAIN ret.list :
               ret.list[j].style # 0 =>
                   /\ Merged.length >= ret.list[j].key + 1
                   /\ Slot(Merged, ret.list[j].key) # 0

\* C24: css_register_value_type_alias(type, alias) fails and leaves the
\* alias map unchanged when alias is a registered keyword; it succeeds when
\* alias is neither a registered keyword nor an alias, and
\* css_resolve_value_type(alias) then returns type
C24_AliasRegistration ==
    ret.op = "register_value_type_alias" =>
        IF ret.alias \in RegisteredNames(keyword_names)
        THEN ret.rc # 0 /\ type_alias = ret.before
        ELSE ret.alias \notin DOMAIN ret.before =>
                 /\ ret.rc = 0
                 /\ css_resolve_value_type(type_alias, ret.alias) = ret.type

\* C25: the name list of one node never holds the same name twice
C25_NamesAreDistinct ==
    ret.op = "names" =>
        \A i, j \in 1..Len(sn_names) : sn_names[i] = sn_names[j] => i = j

\* C26: the name list of one node is in byte-wise lexicographic order: a
\* name before another one is not greater than it
C26_NamesAreOrdered ==
    ret.op = "names" =>
        \A i, j \in 1..Len(sn_names) :
            i < j => ~StrLess(sn_names[j], sn_names[i])

\* the pointers to all links of the trie
AllLinks ==
    UNION {UNION {{LinkPtr(d - 1, gn, k) : k \in DOMAIN groups[d][gn].links} :
                  gn \in DOMAIN groups[d]} :
           d \in 1..Len(groups)}

\* the links that hold the rule numbered id
LinksHolding(id) ==
    {l \in AllLinks :
        \E n \in 1..Len(LinkAt(groups, l).styles) :
            LinkAt(groups, l).styles[n].id = id}

\* the link the claim places a rule of selector n1 .. nk in
RuleLink(selector) ==
    LinkPtr(selector.length - 1, selector.nodes[1].fullname,
            IF selector.length = 1 THEN STAR
            ELSE JoinFullnames(SubSeq(selector.nodes, 2, selector.length)))

\* the position of the first space of a key, 0 when it has none
FirstSpace(key) ==
    IF \E i \in 1..Len(key) : key[i] = CH_SPACE
    THEN CHOOSE i \in 1..Len(key) :
             key[i] = CH_SPACE /\ \A j \in 1..(i - 1) : key[j] # CH_SPACE
    ELSE 0

\* the link of the depth above that the key of a link at depth d identifies
IdentifiedLink(d, key) ==
    IF FirstSpace(key) = 0 THEN LinkPtr(d - 1, key, STAR)
    ELSE LinkPtr(d - 1, SubSeq(key, 1, FirstSpace(key) - 1),
                 SubSeq(key, FirstSpace(key) + 1, Len(key)))

\* C27: every stored rule of selector n1 .. nk is in exactly one link, the
\* one at depth k-1 in group fullname(n1) under the key n2 .. nk (`*` when
\* k = 1), and once in it; every link at depth d >= 1 in group G under key K
\* has the depth d-1 link K identifies, whose parents map sends G to it
C27_TrieStructure ==
    /\ \A n \in 1..Len(added) :
           added[n].stored /\ added[n].selector.length >= 1 =>
               /\ LinksHolding(added[n].id) = {RuleLink(added[n].selector)}
               /\ Cardinality(
                      {m \in 1..Len(LinkAt(groups,
                                          RuleLink(added[n].selector)).styles) :
                          LinkAt(groups, RuleLink(added[n].selector))
                              .styles[m].id = added[n].id}) = 1
    /\ \A l \in AllLinks :
           l.depth >= 1 =>
               /\ IdentifiedLink(l.depth, l.key) \in AllLinks
               /\ l.group \in DOMAIN LinkAt(groups,
                                   IdentifiedLink(l.depth, l.key)).parents
               /\ LinkAt(groups, IdentifiedLink(l.depth, l.key))
                      .parents[l.group] = l

\* rules with selectors `a b` and `a a b` were added: the trie has a link at
\* depth 2 and two links at depth 1
C27_Witness ==
    /\ \E l \in AllLinks : l.depth = 2 /\ LinkAt(groups, l).styles # <<>>
    /\ Cardinality({l \in AllLinks : l.depth = 1}) >= 1
    /\ \E n \in 1..Len(added) :
           added[n].stored /\ added[n].selector.length = 2

\* C28: css_compile_valdef returns, and no css_valdef_parser_parse call of
\* it starts past the terminating NUL of the text
C28_CompileStaysInText ==
    ret.op = "compile_valdef" =>
        /\ ret.rc \in {0, -1}
        /\ ret.p <= Len(ret.str) + 1

\* C29: a selector css_selector_create returns has as many nodes as the text
\* has whitespace-separated simple selectors
C29_NoNodeDropped ==
    ret.op = "parse" /\ parsed.ok =>
        parsed.s.length = CountSimple(text, 1)

\* the numbers of the rules in the list of a query
ListedIds(list) == {list[n].id : n \in 1..Len(list)}

\* C30: the list of a query holds each stored rule at most once, and the
\* count returned is the number of distinct rules in it
C30_QueryListsRuleOnce ==
    ret.op = "query" =>
        /\ \A m, n \in 1..Len(ret.res.list) :
               ret.res.list[m].id = ret.res.list[n].id => m = n
        /\ ret.res.count = Cardinality(ListedIds(ret.res.list))

\* C31: css_query_selector and css_get_computed_style_with_cache leave the
\* trie and the selectors as they were; a query leaves the cache too, and a
\* computed-style call changes nothing in the cache or adds one entry under
\* the hash of its selector, the other entries staying as they were
C31_QueriesReadOnly ==
    [][ret'.op \in {"query", "computed"} =>
          /\ groups' = groups
          /\ selectors' = selectors
          /\ ret'.op = "query" => cache' = cache
          /\ ret'.op = "computed" =>
                 \/ cache' = cache
                 \/ /\ DOMAIN cache' =
                           DOMAIN cache \cup {selectors[ret'.sel].hash}
                    /\ selectors[ret'.sel].hash \notin DOMAIN cache
                    /\ \A k \in DOMAIN cache : cache'[k] = cache[k]]_vars

\* a computed-style call missed the cache of a trie with rules and added a
\* second entry to it
C31_Witness ==
    /\ ret.op = "computed" /\ ~ret.hit
    /\ groups # <<>>
    /\ Cardinality(DOMAIN cache) = 2
    /\ selectors[ret.sel].hash \in DOMAIN cache

\* C32: a css_register_keyword call that fails leaves both maps of the
\* registry as they were
C32_FailedRegistrationKeepsRegistry ==
    ret.op = "register_keyword" /\ ret.rc # 0 =>
        /\ keywords = ret.keywords_before
        /\ keyword_names = ret.before

\* C33: css_add_style_sheet with a selector of length 0 stores no rule and
\* leaves the trie as it was; it empties the cache and returns 0
C33_EmptySelectorStoresNothing ==
    [][ret'.op = "add" /\ added'[Len(added')].selector.length = 0 =>
          /\ groups' = groups
          /\ ~added'[Len(added')].stored
          /\ rule_seq' = rule_seq
          /\ cache' = EmptyDict
          /\ ret'.rc = 0]_vars

\* a selector of length 0 was added to a trie that holds a rule, with a
\* declaration in the cache
C33_Witness ==
    /\ ret.op = "add" /\ ret.cached # {}
    /\ added[Len(added)].selector.length = 0
    /\ \E n \in 1..Len(added) : added[n].stored

\* C34: css_selector_node_match(sn1, sn2) is TRUE exactly when the id of
\* sn2, if it has one, is the id of sn1, the type of sn2, if it has one other
\* than `*`, is the type of sn1, and every class and state of sn2 is a class
\* or state of sn1
C34_NodeMatch ==
    ret.op = "match" =>
        (ret.res <=>
            /\ ret.sn2.id # <<>> => sn_in.id = ret.sn2.id
            /\ ret.sn2.type # <<>> /\ ret.sn2.type # STAR =>
                   sn_in.type = ret.sn2.type
            /\ SeqToSet(ret.sn2.classes) \subseteq SeqToSet(sn_in.classes)
            /\ SeqToSet(ret.sn2.status) \subseteq SeqToSet(sn_in.status))

\* C35: the selector css_selector_duplicate(s) returns equals s in length,
\* hash, rank and batch_num and, node by node, in type, id, classes, states,
\* fullname and rank
C35_DuplicateIsEqual ==
    ret.op = "duplicate" =>
        LET s == selectors[ret.src]
            d == selectors[Len(selectors)]
        IN  /\ d.length = s.length
            /\ d.hash = s.hash
            /\ d.rank = s.rank
            /\ d.batch_num = s.batch_num
            /\ \A i \in 1..s.length :
                   /\ d.nodes[i].type = s.nodes[i].type
                   /\ d.nodes[i].id = s.nodes[i].id
                   /\ d.nodes[i].classes = s.nodes[i].classes
                   /\ d.nodes[i].status = s.nodes[i].status
                   /\ d.nodes[i].fullname = s.nodes[i].fullname
                   /\ d.nodes[i].rank = s.nodes[i].rank

\* C36: after css_get_computed_style(s, out) the slots of out are those of
\* the computed declaration of s, valid where it is valid with the same
\* value and invalid elsewhere, and the declaration in the cache is the one
\* the call was given
C36_OutHoldsComputedStyle ==
    ret.op = "get_computed" =>
        /\ \A key \in 0..(decl_dest.length - 1) :
               Slot(decl_dest, key) = Slot(ret.ss, key)
        /\ \A key \in 0..(ret.ss.length - 1) :
               Slot(decl_dest, key) = Slot(ret.ss, key)
        /\ cache[CacheKey(selectors[ret.sel])] = ret.ss

\* out held a valid slot that the computed declaration does not set, and
\* the computed declaration sets another slot
C36_Witness ==
    /\ ret.op = "get_computed"
    /\ \E key \in 0..(ret.before.length - 1) :
           Slot(ret.before, key) # 0 /\ Slot(ret.ss, key) = 0
    /\ \E key \in 0..(ret.ss.length - 1) : Slot(ret.ss, key) # 0

\* the positions of the parsers of a compiled syntax that accept the text
AcceptingParsers == {i \in 1..Len(ret.parsers) : ret.parsers[i] \in ret.accepted}

\* C37: css_parse_style_value_with_syntax returns an error exactly when no
\* parser of the compiled syntax accepts the text, and otherwise returns 0
\* with the value of the first parser, in the order of the syntax, that
\* accepts it
C37_FirstAlternativeWins ==
    ret.op = "parse_with_syntax" =>
        /\ ret.rc \in {0, -1}
        /\ ret.rc = -1 <=> AcceptingParsers = {}
        /\ AcceptingParsers # {} =>
               \E i \in AcceptingParsers :
                   /\ \A j \in AcceptingParsers : i <= j
                   /\ ret.val = [type |-> ret.parsers[i]]

\* a text that both parsers of `<length> | <percentage>` accept was parsed
C37_Witness ==
    /\ ret.op = "parse_with_syntax" /\ ret.rc = 0
    /\ Len(ret.parsers) = 2 /\ ret.parsers[1] # ret.parsers[2]
    /\ AcceptingParsers = {1, 2}

\* the (key, value) pairs of a property list
ListedPairs(list) == {<<list[n].key, list[n].style>> : n \in 1..Len(list)}

\* C38: the rule stored for a selector holds the space-joined fullnames of
\* all nodes of the selector as its text, the rank and batch_num of the
\* selector, and one (key, value) pair for each valid slot of the
\* declaration it was added with
C38_RuleRecordsSelector ==
    \A n \in 1..Len(added) :
        \A l \in AllLinks :
            \A m \in 1..Len(LinkAt(groups, l).styles) :
                added[n].stored /\ LinkAt(groups, l).styles[m].id = added[n].id =>
                    LET rule == LinkAt(groups, l).styles[m]
                        sel == added[n].selector
                    IN  /\ rule.selector =
                               JoinFullnames(SubSeq(sel.nodes, 1, sel.length))
                        /\ rule.rank = sel.rank
                        /\ rule.batch_num = sel.batch_num
                        /\ Len(rule.list) = Cardinality(ListedPairs(rule.list))
                        /\ ListedPairs(rule.list) =
                               {<<key, Slot(added[n].style, key)>> :
                                   key \in {k \in 0..(added[n].style.length - 1) :
                                               Slot(added[n].style, k) # 0}}

====
